---- MODULE Spec2Model ----
(***************************************************************************)
(* State-machine model of the bulk crop editor (App component, v4.5.2,     *)
(* src/unnamed/part_003 lines 557-1105): the gallery, the editor session   *)
(* with its undo/redo history, single save and batch apply.                *)
(*                                                                         *)
(* Conventions.                                                            *)
(*  - JavaScript arrays are 0-based, TLA+ sequences 1-based.  historyPointer*)
(*    keeps its JavaScript value (-1 before the first session, then 0..49);*)
(*    history[k] of the code is At(history, k) here.  editingIdx is the    *)
(*    1-based position in images, with Null (0) for JavaScript null.       *)
(*  - A nullable value (cropConfig, cropped, completedCrop) is a sequence  *)
(*    of length 0 (null) or 1 (the value).                                 *)
(*  - Numbers that the code computes with "/" are exact rationals <<n, d>> *)
(*    in lowest terms with d > 0.                                          *)
(***************************************************************************)
EXTENDS Integers, Sequences, FiniteSets, TLC

(***************************************************************************)
(* Rational arithmetic.                                                    *)
(***************************************************************************)
\* a function, so that its arguments are values when it recurses
GCD[a \in Nat, b \in Nat] == IF b = 0 THEN a ELSE GCD[b, a % b]

Abs(n) == IF n < 0 THEN -n ELSE n

Rat(n, d) ==
    LET g == GCD[Abs(n), d]
    IN  IF n = 0 THEN <<0, 1>> ELSE <<n \div g, d \div g>>

R(n) == <<n, 1>>

\* Products and sums cancel common factors before they multiply.  Each is a
\* function under its operator, so that an operand is evaluated once however
\* deeply the expressions nest.
RatMul[p \in Int \X Int, q \in Int \X Int] ==
    LET g1 == GCD[Abs(p[1]), q[2]]
        g2 == GCD[Abs(q[1]), p[2]]
    IN  Rat((p[1] \div g1) * (q[1] \div g2), (p[2] \div g2) * (q[2] \div g1))

RatInv[q \in Int \X Int] == IF q[1] < 0 THEN <<-q[2], -q[1]>> ELSE <<q[2], q[1]>>

RatAdd[p \in Int \X Int, q \in Int \X Int] ==
    LET g == GCD[p[2], q[2]]
    IN  Rat(p[1] * (q[2] \div g) + q[1] * (p[2] \div g), (p[2] \div g) * q[2])

RatNeg[q \in Int \X Int] == <<-q[1], q[2]>>

RMul(p, q) == RatMul[p, q]

RDiv(p, q) == RatMul[p, RatInv[q]]

RAdd(p, q) == RatAdd[p, q]

RSub(p, q) == RatAdd[p, RatNeg[q]]

RLess(p, q) == p[1] * q[2] < q[1] * p[2]

RMin(p, q) == IF RLess(q, p) THEN q ELSE p

\* Math.ceil
RCeil(p) == -((-p[1]) \div p[2])

\* the truncation of a canvas dimension to an integer
RFloor(p) == p[1] \div p[2]

(***************************************************************************)
(* Bounds of the model.                                                    *)
(***************************************************************************)
MaxImages == 2

MaxHistLen == 2

MaxPointer == 2

MaxTimeouts == 1

MaxHistImages == 1

MaxSessionPushes == 1

MaxBatchCalls == 1

MaxViewImages == 3

MaxZoomNum == 21

MaxZoomDen == 20000

MaxZoomOps == 4

MaxPanOffset == 80

MaxAspectImages == 4

MaxAspectPushes == 2

MaxRotation == 181

MaxDownloadRuns == 2

(***************************************************************************)
(* Program constants.                                                      *)
(***************************************************************************)
HistoryCap == 50

LastSlot == 49

PADDING == 2000

(***************************************************************************)
(* Values.                                                                 *)
(***************************************************************************)
Null == 0

AspectUndefined == <<0, 0>>

MkCrop(u, x, y, w, h) == [unit |-> u, x |-> x, y |-> y, width |-> w, height |-> h]

\* { unit: '%', x: 0, y: 0, width: 100, height: 100 }
FullCrop == MkCrop("%", R(0), R(0), R(100), R(100))

\* useState<Crop>() : undefined
UndefCrop == MkCrop("undefined", R(0), R(0), R(0), R(0))

Snap(c, a, r) == [crop |-> c, aspect |-> a, rotation |-> r]

\* The images a user can add, in the order they are added: the spec's image
\* A (4000x3000), image B (1000x500), then an icon and a nearly square image.
NaturalSize(id) ==
    CASE id = 1 -> [w |-> 4000, h |-> 3000]
      [] id = 2 -> [w |-> 1000, h |-> 500]
      [] id = 3 -> [w |-> 16, h |-> 12]
      [] OTHER  -> [w |-> 2001, h |-> 2000]

\* viewport.clientWidth / clientHeight of the editor's viewport element
Viewport == [w |-> 440, h |-> 340]

\* fitToViewport: ratio = Math.min(vw / naturalWidth, vh / naturalHeight)
FitRatio(id) ==
    RMin(Rat(Viewport.w - 40, NaturalSize(id).w),
         Rat(Viewport.h - 40, NaturalSize(id).h))

\* img.width / img.height of the editor's <img>: naturalWidth * zoom at the
\* fitted zoom
DisplaySize(id) ==
    [w |-> RMul(R(NaturalSize(id).w), FitRatio(id)),
     h |-> RMul(R(NaturalSize(id).h), FitRatio(id))]

VARIABLES
    images,                  \* useState<ImageItem[]>
    editingIdx,              \* useState<number | null>
    crop,                    \* useState<Crop>
    completedCrop,           \* useState<PixelCrop | null>
    aspect,                  \* useState<number | undefined>
    rotation,                \* useState(0)
    isProcessing,            \* useState(false)
    history,                 \* useState<EditorState[]>
    historyPointer,          \* useState(-1)
    isInternalHistoryUpdate, \* useRef(false)
    timeouts,                \* pending setTimeout(() => flag = false, 0) callbacks
    saveRun,                 \* the handleSave call awaiting canvas.toBlob, if any
    batch,                   \* the handleApplyAll call awaiting Promise.all, if any
    lastCall,                \* history variable: when the last step called
                             \* pushToHistory, <<[op, state, history,
                             \* historyPointer, internal]>>: its argument and the
                             \* history, the pointer and the flag it found; when
                             \* the last step was a single save that failed,
                             \* <<[op, fn, outcome]>>
    sessionImages,           \* history variable: images when the session started
    committed,               \* history variable: handleSave or handleApplyAll was
                             \* called since the session started
    zoom,                    \* useState(1)
    scroll,                  \* viewport.scrollLeft, viewport.scrollTop
    zoomState,               \* useRef({ lastZoom, anchorX, ..., dragStartScrollT })
    isPanMode,               \* useState(false)
    isPinching,              \* useState(false)
    zoomOps,                 \* history variable: the zoom changes made since the
                             \* image was last fitted
    globalFormat,            \* useState('image/jpeg')
    downloads,               \* the calls of downloadAll and downloadFile that
                             \* have been made, each with the array it walks
                             \* and the position of each of its items
    saved                    \* history variable: the files handed to the browser
                             \* so far, in the order of link.click() / pdf.save()

vars == <<images, editingIdx, crop, completedCrop, aspect, rotation, isProcessing,
          history, historyPointer, isInternalHistoryUpdate, timeouts, saveRun,
          batch, lastCall, sessionImages, committed,
          zoom, scroll, zoomState, isPanMode, isPinching, zoomOps,
          globalFormat, downloads, saved>>

editorVars == <<crop, aspect, rotation>>

histVars == <<history, historyPointer>>

flagVars == <<isInternalHistoryUpdate, timeouts>>

asyncVars == <<saveRun, batch>>

sessionVars == <<sessionImages, committed>>

viewVars == <<zoom, scroll, zoomState, isPanMode, isPinching, zoomOps>>

exportVars == <<globalFormat, downloads, saved>>

\* no batch call is awaited; calls counts the batch calls made so far
IdleBatch(calls) == [status |-> "idle", calls |-> calls]

Init ==
    /\ images = <<>>
    /\ editingIdx = Null
    /\ crop = UndefCrop
    /\ completedCrop = <<>>
    /\ aspect = AspectUndefined
    /\ rotation = 0
    /\ isProcessing = FALSE
    /\ history = <<>>
    /\ historyPointer = -1
    /\ isInternalHistoryUpdate = FALSE
    /\ timeouts = 0
    /\ saveRun = <<>>
    /\ batch = IdleBatch(0)
    /\ lastCall = <<>>
    /\ sessionImages = <<>>
    /\ committed = FALSE
    /\ zoom = R(1)
    /\ scroll = [l |-> R(0), t |-> R(0)]
    /\ zoomState = [lastZoom |-> R(1), anchorX |-> R(0), anchorY |-> R(0),
                    viewX |-> R(0), viewY |-> R(0),
                    touchStartDist |-> 0, touchStartZoom |-> R(1),
                    isPinching |-> FALSE, isDragging |-> FALSE,
                    dragStartX |-> 0, dragStartY |-> 0,
                    dragStartScrollL |-> R(0), dragStartScrollT |-> R(0)]
    /\ isPanMode = FALSE
    /\ isPinching = FALSE
    /\ zoomOps = 0
    /\ globalFormat = "image/jpeg"
    /\ downloads = <<>>
    /\ saved = <<>>

(***************************************************************************)
(* History stack.                                                          *)
(***************************************************************************)
At(h, k) == h[k + 1]

\* Array.prototype.slice(0, n) for n >= 0
SliceTo(h, n) == SubSeq(h, 1, IF n < Len(h) THEN n ELSE Len(h))

\* JSON.stringify(crop): the members in insertion order
StringifyCrop(c) ==
    IF c.unit = "undefined" THEN <<"undefined">>
    ELSE <<"unit", c.unit, "x", c.x, "y", c.y, "width", c.width, "height", c.height>>

SameState(last, state) ==
    /\ StringifyCrop(last.crop) = StringifyCrop(state.crop)
    /\ last.aspect = state.aspect
    /\ last.rotation = state.rotation

\* the test of the setHistory updater: last && last equals state
IsDuplicate(prev, ptr, state) ==
    LET newHistory == SliceTo(prev, ptr + 1)
    IN  Len(newHistory) > 0 /\ SameState(newHistory[Len(newHistory)], state)

\* a variant of the updater that keeps the entries after the pointer
HistoryUpdater_NoTruncate(prev, ptr, state) ==
    IF IsDuplicate(prev, ptr, state)
    THEN prev
    ELSE LET pushed == Append(prev, state)
         IN  IF Len(pushed) > HistoryCap THEN Tail(pushed) ELSE pushed

\* a variant of the updater that drops the oldest entry one push too late
HistoryUpdater_LateEvict(prev, ptr, state) ==
    LET newHistory == SliceTo(prev, ptr + 1)
    IN  IF IsDuplicate(prev, ptr, state)
        THEN prev
        ELSE LET pushed == Append(newHistory, state)
             IN  IF Len(pushed) > HistoryCap + 1 THEN Tail(pushed) ELSE pushed

\* the updater passed to setHistory, with the historyPointer of the closure
HistoryUpdater(prev, ptr, state) ==
    LET newHistory == SliceTo(prev, ptr + 1)
    IN  IF IsDuplicate(prev, ptr, state)
        THEN prev
        ELSE LET pushed == Append(newHistory, state)
             IN  IF Len(pushed) > HistoryCap THEN Tail(pushed) ELSE pushed

\* the updater passed to setHistoryPointer
PointerUpdater(prev) ==
    LET newPointer == prev + 1
    IN  IF newPointer >= HistoryCap THEN LastSlot ELSE newPointer

pushToHistory(state) ==
    /\ IF isInternalHistoryUpdate
       THEN UNCHANGED <<history, historyPointer>>
       ELSE /\ history' = HistoryUpdater(history, historyPointer, state)
            /\ historyPointer' = PointerUpdater(historyPointer)
    /\ lastCall' = <<[op |-> "pushToHistory",
                       state |-> state, history |-> history,
                       historyPointer |-> historyPointer,
                       internal |-> isInternalHistoryUpdate]>>
    /\ UNCHANGED <<viewVars, exportVars>>
undo ==
    /\ editingIdx # Null
    /\ lastCall' = <<>>
    /\ IF historyPointer > 0
       THEN /\ isInternalHistoryUpdate' = TRUE
            /\ IF historyPointer - 1 < Len(history)
               THEN LET prevState == At(history, historyPointer - 1)
                    IN  /\ crop' = prevState.crop
                        /\ aspect' = prevState.aspect
                        /\ rotation' = prevState.rotation
                        /\ historyPointer' = historyPointer - 1
                        /\ timeouts' = timeouts + 1
               ELSE \* history[historyPointer - 1] is undefined: reading
                    \* prevState.crop throws before any setter or the
                    \* setTimeout is reached
                    UNCHANGED <<crop, aspect, rotation, historyPointer, timeouts>>
       ELSE UNCHANGED <<crop, aspect, rotation, historyPointer,
                        isInternalHistoryUpdate, timeouts>>
    /\ UNCHANGED <<images, editingIdx, completedCrop, isProcessing, history,
                   asyncVars, sessionVars>>
    /\ UNCHANGED <<viewVars, exportVars>>
redo ==
    /\ editingIdx # Null
    /\ lastCall' = <<>>
    /\ IF historyPointer < Len(history) - 1
       THEN LET nextState == At(history, historyPointer + 1)
            IN  /\ isInternalHistoryUpdate' = TRUE
                /\ crop' = nextState.crop
                /\ aspect' = nextState.aspect
                /\ rotation' = nextState.rotation
                /\ historyPointer' = historyPointer + 1
                /\ timeouts' = timeouts + 1
       ELSE UNCHANGED <<crop, aspect, rotation, historyPointer,
                        isInternalHistoryUpdate, timeouts>>
    /\ UNCHANGED <<images, editingIdx, completedCrop, isProcessing, history,
                   asyncVars, sessionVars>>
    /\ UNCHANGED <<viewVars, exportVars>>

\* setTimeout(() => { isInternalHistoryUpdate.current = false; }, 0)
internalUpdateTimeout ==
    /\ timeouts > 0
    /\ timeouts' = timeouts - 1
    /\ isInternalHistoryUpdate' = FALSE
    /\ UNCHANGED <<images, editingIdx, editorVars, completedCrop, isProcessing,
                   histVars, lastCall, asyncVars, sessionVars>>
    /\ UNCHANGED <<viewVars, exportVars>>

(***************************************************************************)
(* Gallery and editor session.                                             *)
(***************************************************************************)
NewItem(id) == [id |-> id, cropped |-> <<>>, cropConfig |-> <<>>]

\* fitToViewport, with the scroll offsets its requestAnimationFrame callback
\* assigns: the image is fitted and centred
fitToViewport(id) ==
    LET ratio == FitRatio(id)
        zoomedW == RMul(R(NaturalSize(id).w), ratio)
        zoomedH == RMul(R(NaturalSize(id).h), ratio)
    IN  /\ zoom' = ratio
        /\ zoomState' = [zoomState EXCEPT !.lastZoom = ratio]
        /\ zoomOps' = 0
        /\ scroll' = [l |-> RSub(RAdd(RDiv(zoomedW, R(2)), R(PADDING)),
                                 Rat(Viewport.w, 2)),
                      t |-> RSub(RAdd(RDiv(zoomedH, R(2)), R(PADDING)),
                                 Rat(Viewport.h, 2))]

\* a variant of the session effect that starts every session from the default
\* snapshot
sessionEffect_Default(imgs, idx) ==
    IF idx # Null /\ idx <= Len(imgs)
    THEN /\ crop' = FullCrop
         /\ aspect' = AspectUndefined
         /\ rotation' = 0
         /\ history' = <<Snap(FullCrop, AspectUndefined, 0)>>
         /\ historyPointer' = 0
         /\ sessionImages' = imgs
         /\ committed' = FALSE
         /\ isPanMode' = FALSE
         /\ fitToViewport(imgs[idx].id)
         /\ UNCHANGED <<isPinching, exportVars>>
    ELSE UNCHANGED <<editorVars, histVars, sessionVars, viewVars, exportVars>>

\* useEffect(..., [editingIdx, images, fitToViewport]): runs after every
\* change of editingIdx or of the images array
sessionEffect(imgs, idx) ==
    IF idx # Null /\ idx <= Len(imgs)
    THEN LET cfg == imgs[idx].cropConfig
             initialCrop == IF cfg # <<>> THEN cfg[1].crop ELSE FullCrop
             initialAspect == IF cfg # <<>> THEN cfg[1].aspect ELSE AspectUndefined
             initialRotation == IF cfg # <<>> THEN cfg[1].rotation ELSE 0
         IN  /\ crop' = initialCrop
             /\ aspect' = initialAspect
             /\ rotation' = initialRotation
             /\ history' = <<Snap(initialCrop, initialAspect, initialRotation)>>
             /\ historyPointer' = 0
             /\ sessionImages' = imgs
             /\ committed' = FALSE
             /\ isPanMode' = FALSE
             /\ fitToViewport(imgs[idx].id)
             /\ UNCHANGED <<isPinching, exportVars>>
    ELSE UNCHANGED <<editorVars, histVars, sessionVars, viewVars, exportVars>>

handleAddImages(n) ==
    /\ n > 0
    /\ LET newImgs == [k \in 1..n |-> NewItem(Len(images) + k)]
       IN  /\ images' = images \o newImgs
           /\ sessionEffect(images \o newImgs, editingIdx)
    /\ lastCall' = <<>>
    /\ UNCHANGED <<editingIdx, completedCrop, isProcessing, flagVars, asyncVars>>

\* grid item onClick={() => setEditingIdx(idx)}
openEditor(idx) ==
    /\ editingIdx = Null
    /\ idx \in 1..Len(images)
    /\ editingIdx' = idx
    /\ sessionEffect(images, idx)
    /\ lastCall' = <<>>
    /\ UNCHANGED <<images, completedCrop, isProcessing, flagVars, asyncVars>>

EditedId == images[editingIdx].id

PctOfDisplay(id, x, y, w, h) ==
    LET d == DisplaySize(id)
    IN  MkCrop("px", RMul(Rat(x, 100), d.w), RMul(Rat(y, 100), d.h),
                     RMul(Rat(w, 100), d.w), RMul(Rat(h, 100), d.h))

\* the pixel crops (in displayed pixels) a drag on the image can produce
DragCrops(id) == {PctOfDisplay(id, 25, 25, 50, 50), PctOfDisplay(id, 0, 0, 50, 100)}

\* ReactCrop onChange={setCrop}: the first argument is the pixel crop
onChange(c) ==
    /\ editingIdx # Null
    /\ crop' = c
    /\ lastCall' = <<>>
    /\ UNCHANGED <<images, editingIdx, completedCrop, aspect, rotation, isProcessing,
                   histVars, flagVars, asyncVars, sessionVars>>
    /\ UNCHANGED <<viewVars, exportVars>>

\* react-image-crop convertToPixelCrop(crop, width, height)
ToPixelCrop(c, d) ==
    IF c.unit = "px" THEN c
    ELSE MkCrop("px", RMul(RDiv(c.x, R(100)), d.w), RMul(RDiv(c.y, R(100)), d.h),
                      RMul(RDiv(c.width, R(100)), d.w), RMul(RDiv(c.height, R(100)), d.h))

\* ReactCrop onComplete: called with the pixel crop when a drag ends
onCropComplete ==
    /\ editingIdx # Null
    /\ completedCrop' = <<ToPixelCrop(crop, DisplaySize(EditedId))>>
    /\ pushToHistory(Snap(crop, aspect, rotation))
    /\ UNCHANGED <<images, editingIdx, editorVars, isProcessing, flagVars,
                   asyncVars, sessionVars>>

\* a whole drag of the selection to c: onChange(c) while the pointer moves,
\* then onComplete when it is released
dragCrop(c) ==
    /\ editingIdx # Null
    /\ crop' = c
    /\ completedCrop' = <<ToPixelCrop(c, DisplaySize(EditedId))>>
    /\ pushToHistory(Snap(c, aspect, rotation))
    /\ UNCHANGED <<images, editingIdx, aspect, rotation, isProcessing, flagVars,
                   asyncVars, sessionVars>>

\* rotation slider onChange
onRotationChange(newRot) ==
    /\ editingIdx # Null
    /\ newRot # rotation
    /\ rotation' = newRot
    /\ pushToHistory(Snap(crop, aspect, newRot))
    /\ UNCHANGED <<images, editingIdx, crop, aspect, completedCrop, isProcessing,
                   flagVars, asyncVars, sessionVars>>

\* rotation reset button
onRotationReset ==
    /\ editingIdx # Null
    /\ rotation' = 0
    /\ pushToHistory(Snap(crop, aspect, 0))
    /\ UNCHANGED <<images, editingIdx, crop, aspect, completedCrop, isProcessing,
                   flagVars, asyncVars, sessionVars>>

\* the rotate buttons beside the slider: setRotation(r => r + delta)
rotateStep(delta) ==
    /\ editingIdx # Null
    /\ rotation' = rotation + delta
    /\ lastCall' = <<>>
    /\ UNCHANGED <<images, editingIdx, crop, aspect, completedCrop, isProcessing,
                   histVars, flagVars, asyncVars, sessionVars, viewVars, exportVars>>

\* imgRef.current.naturalWidth / imgRef.current.naturalHeight
currentOriginalAspect == Rat(NaturalSize(EditedId).w, NaturalSize(EditedId).h)

RAbs(p) == <<Abs(p[1]), p[2]>>

\* react-image-crop convertToPercentCrop(crop, width, height)
ToPercentCrop(c, d) ==
    IF c.unit = "%" THEN c
    ELSE MkCrop("%", RMul(RDiv(c.x, d.w), R(100)), RMul(RDiv(c.y, d.h), R(100)),
                     RMul(RDiv(c.width, d.w), R(100)), RMul(RDiv(c.height, d.h), R(100)))

\* react-image-crop makeAspectCrop({ unit: '%', width: 100 }, aspect, width, height)
makeAspectCrop(a, d) ==
    LET w0 == d.w
        h0 == RDiv(w0, a)
        tall == RLess(d.h, h0)
        h1 == IF tall THEN d.h ELSE h0
        w1 == IF tall THEN RMul(d.h, a) ELSE w0
        wide == RLess(d.w, w1)
        w2 == IF wide THEN d.w ELSE w1
        h2 == IF wide THEN RDiv(d.w, a) ELSE h1
    IN  ToPercentCrop(MkCrop("px", R(0), R(0), w2, h2), d)

\* react-image-crop centerCrop(crop, width, height)
centerCrop(c, d) ==
    LET px == ToPixelCrop(c, d)
    IN  ToPercentCrop(MkCrop("px", RDiv(RSub(d.w, px.width), R(2)),
                                   RDiv(RSub(d.h, px.height), R(2)),
                                   px.width, px.height), d)

\* a variant of NearOriginal that accepts only the native aspect itself
NearOriginal_Exact(newAspect) == newAspect = currentOriginalAspect

NearOriginal(newAspect) ==
    RLess(RAbs(RSub(newAspect, currentOriginalAspect)), Rat(1, 1000))

AspectCrop(newAspect) ==
    IF newAspect = AspectUndefined \/ NearOriginal(newAspect)
    THEN FullCrop
    ELSE centerCrop(makeAspectCrop(newAspect, DisplaySize(EditedId)),
                    DisplaySize(EditedId))

onAspectChange(newAspect) ==
    /\ editingIdx # Null
    /\ aspect' = newAspect
    /\ crop' = AspectCrop(newAspect)
    /\ pushToHistory(Snap(AspectCrop(newAspect), newAspect, rotation))
    /\ UNCHANGED <<images, editingIdx, rotation, completedCrop, isProcessing,
                   flagVars, asyncVars, sessionVars>>

\* { ...img, cropConfig: { crop: { ...crop }, aspect, rotation } } at position idx
WithConfig(imgs, idx, c, a, r) ==
    [i \in 1..Len(imgs) |->
        IF i = idx THEN [imgs[i] EXCEPT !.cropConfig = <<Snap(c, a, r)>>]
        ELSE imgs[i]]

navigateTo(newIdx) ==
    /\ editingIdx # Null
    /\ images' = IF crop.unit # "undefined"
                 THEN WithConfig(images, editingIdx, crop, aspect, rotation)
                 ELSE images
    /\ editingIdx' = newIdx
    /\ IF crop.unit # "undefined"
       THEN sessionEffect(WithConfig(images, editingIdx, crop, aspect, rotation), newIdx)
       ELSE sessionEffect(images, newIdx)
    /\ lastCall' = <<>>
    /\ UNCHANGED <<completedCrop, isProcessing, flagVars, asyncVars>>

\* react-image-crop makeAspectCrop({ unit: '%', width: pct }, aspect, width, height)
makeAspectCropOf(pct, a, d) ==
    LET w0 == RMul(Rat(pct, 100), d.w)
        h0 == RDiv(w0, a)
        tall == RLess(d.h, h0)
        h1 == IF tall THEN d.h ELSE h0
        w1 == IF tall THEN RMul(d.h, a) ELSE w0
        wide == RLess(d.w, w1)
        w2 == IF wide THEN d.w ELSE w1
        h2 == IF wide THEN RDiv(d.w, a) ELSE h1
    IN  ToPercentCrop(MkCrop("px", R(0), R(0), w2, h2), d)

\* getInitialCrop(img, targetAspect) of src/index.tsx
getInitialCrop(id, targetAspect) ==
    LET n == [w |-> R(NaturalSize(id).w), h |-> R(NaturalSize(id).h)]
        effAspect == IF targetAspect = AspectUndefined THEN RDiv(n.w, n.h)
                     ELSE targetAspect
    IN  centerCrop(makeAspectCropOf(90, effAspect, n), n)

\* the previous / next buttons of the App of src/index.tsx, followed over the
\* same gallery (lastCrop and lastAspect of an item are its cropConfig):
\* setEditingIndex(i => Math.max(0, i - 1)) or
\* setEditingIndex(i => Math.min(images.length - 1, i + 1)), then the onImageLoad
\* of the incoming item's <img>
stepEditingIndex(delta) ==
    /\ editingIdx # Null
    /\ LET stepped == editingIdx + delta
           newIdx == IF stepped < 1 THEN 1
                     ELSE IF stepped > Len(images) THEN Len(images) ELSE stepped
           currentImg == images[newIdx]
       IN  /\ newIdx # editingIdx
           /\ editingIdx' = newIdx
           /\ IF currentImg.cropConfig # <<>>
              THEN /\ crop' = currentImg.cropConfig[1].crop
                   /\ aspect' = currentImg.cropConfig[1].aspect
              ELSE /\ crop' = getInitialCrop(currentImg.id, aspect)
                   /\ aspect' = aspect
    /\ lastCall' = <<>>
    /\ UNCHANGED <<images, rotation, completedCrop, isProcessing, histVars, flagVars,
                   asyncVars, sessionVars>>
    /\ UNCHANGED <<viewVars, exportVars>>

(***************************************************************************)
(* Rendering and single save.                                              *)
(***************************************************************************)
\* getProcessedCanvas(image, cropConfig, currentRotation): the source rectangle
\* in native pixels, the canvas size and the rotation drawn
getProcessedCanvas(id, d, cc, currentRotation) ==
    LET n == NaturalSize(id)
        scaleX == RDiv(R(n.w), d.w)
        scaleY == RDiv(R(n.h), d.h)
        cropX == RMul(cc.x, scaleX)
        cropY == RMul(cc.y, scaleY)
        cropW == RMul(cc.width, scaleX)
        cropH == RMul(cc.height, scaleY)
    IN  [src |-> id,
         rect |-> [x |-> cropX, y |-> cropY, width |-> cropW, height |-> cropH],
         canvas |-> [width |-> RCeil(cropW), height |-> RCeil(cropH)],
         rotation |-> currentRotation]

\* handleSave up to the await of canvas.toBlob
handleSave ==
    /\ completedCrop # <<>>
    /\ editingIdx # Null
    /\ ~isProcessing
    /\ isProcessing' = TRUE
    /\ saveRun' = <<[fn |-> "handleSave",
                     editingIdx |-> editingIdx, crop |-> crop, aspect |-> aspect,
                     rotation |-> rotation,
                     canvas |-> getProcessedCanvas(EditedId, DisplaySize(EditedId),
                                                   completedCrop[1], rotation)]>>
    /\ committed' = TRUE
    /\ lastCall' = <<>>
    /\ UNCHANGED <<images, editingIdx, editorVars, completedCrop, histVars, flagVars,
                   batch, sessionImages>>
    /\ UNCHANGED <<viewVars, exportVars>>

\* { ...img, cropped: previewUrl, cropConfig: { crop: { ...crop! }, aspect, rotation } }
WithOutput(imgs, idx, blob, c, a, r) ==
    [i \in 1..Len(imgs) |->
        IF i = idx THEN [imgs[i] EXCEPT !.cropped = <<blob>>,
                                        !.cropConfig = <<Snap(c, a, r)>>]
        ELSE imgs[i]]

\* handleSave after canvas.toBlob called back, with a blob (ok) or with null
handleSaveBlob(ok) ==
    /\ saveRun # <<>>
    /\ saveRun[1].fn = "handleSave"
    /\ saveRun' = <<>>
    /\ lastCall' = <<>>
    /\ IF ok
       THEN LET run == saveRun[1]
                updated == WithOutput(images, run.editingIdx, run.canvas,
                                      run.crop, run.aspect, run.rotation)
            IN  /\ images' = updated
                /\ isProcessing' = FALSE
                /\ editingIdx' = Null
                /\ sessionEffect(updated, Null)
       ELSE UNCHANGED <<images, isProcessing, editingIdx, editorVars, histVars,
                        sessionVars, viewVars, exportVars>>
    /\ UNCHANGED <<completedCrop, flagVars, batch>>

(***************************************************************************)
(* Single save of the other Apps of the repository, followed over the same *)
(* gallery: handleSaveCrop of src/App.tsx with the getCroppedImg of         *)
(* src/unnamed/part_002, and saveCrop of src/index.tsx (lastCrop and        *)
(* lastAspect of an item are its cropConfig).  One call is followed at a    *)
(* time.                                                                    *)
(***************************************************************************)
\* getCroppedImg(imageSrc, pixelCrop): the canvas it draws
GetCroppedImgCanvas(id, pixelCrop) ==
    [src |-> id,
     rect |-> [x |-> pixelCrop.x, y |-> pixelCrop.y,
               width |-> pixelCrop.width, height |-> pixelCrop.height],
     canvas |-> [width |-> RFloor(pixelCrop.width), height |-> RFloor(pixelCrop.height)],
     rotation |-> 0]

\* the record of a failed single save
SaveFailed(fn, outcome) == <<[op |-> "saveFailed", fn |-> fn, outcome |-> outcome]>>

\* handleSaveCrop(pixelCrop) up to the await of getCroppedImg
handleSaveCrop ==
    /\ editingIdx # Null
    /\ completedCrop # <<>>
    /\ saveRun = <<>>
    /\ saveRun' = <<[fn |-> "handleSaveCrop",
                     editingIdx |-> editingIdx, crop |-> crop, aspect |-> aspect,
                     rotation |-> rotation,
                     canvas |-> GetCroppedImgCanvas(EditedId, completedCrop[1])]>>
    /\ committed' = TRUE
    /\ lastCall' = <<>>
    /\ UNCHANGED <<images, editingIdx, editorVars, completedCrop, isProcessing,
                   histVars, flagVars, batch, sessionImages>>
    /\ UNCHANGED <<viewVars, exportVars>>

\* a variant of handleSaveCropSettled that closes the editor whatever the
\* outcome, as if setEditingImageId(null) stood in a finally block
handleSaveCropSettled_Finally(outcome) ==
    /\ saveRun # <<>>
    /\ saveRun[1].fn = "handleSaveCrop"
    /\ saveRun' = <<>>
    /\ editingIdx' = Null
    /\ IF outcome = "ok"
       THEN /\ images' = [images EXCEPT
                            ![saveRun[1].editingIdx].cropped = <<saveRun[1].canvas>>]
            /\ lastCall' = <<>>
       ELSE /\ UNCHANGED images
            /\ lastCall' = SaveFailed("handleSaveCrop", outcome)
    /\ UNCHANGED <<editorVars, completedCrop, isProcessing, histVars, flagVars, batch,
                   sessionVars>>
    /\ UNCHANGED <<viewVars, exportVars>>

\* getCroppedImg settles: it resolves with the URL of the blob ("ok"), or it
\* rejects because img.onerror fired ("decodeError") or because drawing threw
\* ("renderError"), and the catch of handleSaveCrop logs the error
handleSaveCropSettled(outcome) ==
    /\ saveRun # <<>>
    /\ saveRun[1].fn = "handleSaveCrop"
    /\ saveRun' = <<>>
    /\ IF outcome = "ok"
       THEN /\ images' = [images EXCEPT
                            ![saveRun[1].editingIdx].cropped = <<saveRun[1].canvas>>]
            /\ editingIdx' = Null
            /\ lastCall' = <<>>
       ELSE /\ UNCHANGED <<images, editingIdx>>
            /\ lastCall' = SaveFailed("handleSaveCrop", outcome)
    /\ UNCHANGED <<editorVars, completedCrop, isProcessing, histVars, flagVars, batch,
                   sessionVars>>
    /\ UNCHANGED <<viewVars, exportVars>>

\* saveCrop: pixelX, pixelY, pixelW, pixelH and the canvas
SaveCropCanvas(id, c) ==
    LET scaleX == Rat(NaturalSize(id).w, 100)
        scaleY == Rat(NaturalSize(id).h, 100)
        pixelW == RMul(c.width, scaleX)
        pixelH == RMul(c.height, scaleY)
    IN  [src |-> id,
         rect |-> [x |-> RMul(c.x, scaleX), y |-> RMul(c.y, scaleY),
                   width |-> pixelW, height |-> pixelH],
         canvas |-> [width |-> RFloor(pixelW), height |-> RFloor(pixelH)],
         rotation |-> 0]

\* saveCrop up to the await of canvas.toBlob ("ok"); when getContext returns
\* null it returns, when drawImage throws the catch alerts, and in both cases
\* ("renderError") the finally clears isProcessing in the same call
saveCrop(outcome) ==
    /\ editingIdx # Null
    /\ crop.unit # "undefined"
    /\ saveRun = <<>>
    /\ committed' = TRUE
    /\ lastCall' = IF outcome = "ok" THEN <<>> ELSE SaveFailed("saveCrop", outcome)
    /\ IF outcome = "ok"
       THEN /\ isProcessing' = TRUE
            /\ saveRun' = <<[fn |-> "saveCrop",
                             editingIdx |-> editingIdx, crop |-> crop,
                             aspect |-> aspect, rotation |-> rotation,
                             length |-> Len(images),
                             canvas |-> SaveCropCanvas(EditedId, crop)]>>
       ELSE /\ isProcessing' = FALSE
            /\ saveRun' = saveRun
    /\ UNCHANGED <<images, editingIdx, editorVars, completedCrop, histVars, flagVars,
                   batch, sessionImages>>
    /\ UNCHANGED <<viewVars, exportVars>>

\* saveCrop after canvas.toBlob called back: with a blob (ok) the item gets its
\* output, lastCrop and lastAspect and the editor moves to the next item, whose
\* <img> loads (onImageLoad), or closes after the last one; with null the
\* code throws, the catch alerts; the finally clears isProcessing
saveCropBlob(ok) ==
    /\ saveRun # <<>>
    /\ saveRun[1].fn = "saveCrop"
    /\ saveRun' = <<>>
    /\ lastCall' = IF ok THEN <<>> ELSE SaveFailed("saveCrop", "encodeError")
    /\ isProcessing' = FALSE
    /\ IF ok
       THEN LET run == saveRun[1]
                updated == WithOutput(images, run.editingIdx, run.canvas,
                                      run.crop, run.aspect, run.rotation)
            IN  /\ images' = updated
                /\ IF run.editingIdx < run.length
                   THEN LET currentImg == updated[run.editingIdx + 1]
                        IN  /\ editingIdx' = run.editingIdx + 1
                            /\ IF currentImg.cropConfig # <<>>
                               THEN /\ crop' = currentImg.cropConfig[1].crop
                                    /\ aspect' = currentImg.cropConfig[1].aspect
                               ELSE /\ crop' = getInitialCrop(currentImg.id, aspect)
                                    /\ aspect' = aspect
                   ELSE /\ editingIdx' = Null
                        /\ UNCHANGED <<crop, aspect>>
       ELSE UNCHANGED <<images, editingIdx, crop, aspect>>
    /\ UNCHANGED <<rotation, completedCrop, histVars, flagVars, batch, sessionVars>>
    /\ UNCHANGED <<viewVars, exportVars>>

(***************************************************************************)
(* Batch apply.  handleApplyAll is the batch of the App of                  *)
(* src/unnamed/part_003; applyToAll is the batch of the App of               *)
(* src/index.tsx, followed over the same gallery.  One call is followed at  *)
(* a time; a call whose Promise.all never settles is followed forever.      *)
(***************************************************************************)
\* an async callback of images.map at its first await
NewTask == [pc |-> "decoding", out |-> <<>>, blob |-> "pending"]

\* xP, yP, wP, hP of handleApplyAll: completedCrop as percentages of the
\* editor's <img>
SelectionPercent(cc, d) ==
    [x |-> RMul(RDiv(cc.x, d.w), R(100)),
     y |-> RMul(RDiv(cc.y, d.h), R(100)),
     width |-> RMul(RDiv(cc.width, d.w), R(100)),
     height |-> RMul(RDiv(cc.height, d.h), R(100))]

\* handleApplyAll up to the await of Promise.all: every callback of images.map
\* has run to its await of tempImg.onload
handleApplyAll ==
    /\ completedCrop # <<>>
    /\ editingIdx # Null
    /\ batch.status \in {"idle", "rejected"}
    /\ isProcessing' = TRUE
    /\ batch' = [status |-> "running", calls |-> batch.calls + 1,
                 fn |-> "handleApplyAll", images |-> images,
                 selection |-> SelectionPercent(completedCrop[1], DisplaySize(EditedId)),
                 currentCrop |-> completedCrop[1],
                 aspect |-> aspect, rotation |-> rotation,
                 task |-> [i \in 1..Len(images) |-> NewTask]]
    /\ committed' = TRUE
    /\ lastCall' = <<>>
    /\ UNCHANGED <<images, editingIdx, editorVars, completedCrop, histVars, flagVars,
                   saveRun, sessionImages>>
    /\ UNCHANGED <<viewVars, exportVars>>

\* applyToAll up to the await of Promise.all
applyToAll ==
    /\ completedCrop # <<>>
    /\ editingIdx # Null
    /\ batch.status \in {"idle", "rejected"}
    /\ batch' = [status |-> "running", calls |-> batch.calls + 1,
                 fn |-> "applyToAll", images |-> images,
                 selection |-> SelectionPercent(completedCrop[1], DisplaySize(EditedId)),
                 currentCrop |-> completedCrop[1],
                 aspect |-> aspect, rotation |-> rotation,
                 task |-> [i \in 1..Len(images) |-> NewTask]]
    /\ committed' = TRUE
    /\ lastCall' = <<>>
    /\ UNCHANGED <<images, editingIdx, editorVars, completedCrop, isProcessing,
                   histVars, flagVars, saveRun, sessionImages>>
    /\ UNCHANGED <<viewVars, exportVars>>

\* handleApplyBatch of the v5.1.6 App up to the await of Promise.all, followed
\* over the same gallery with every item selected (selected: true is what
\* handleAddImages gives a new item)
handleApplyBatch ==
    /\ completedCrop # <<>>
    /\ editingIdx # Null
    /\ batch.status \in {"idle", "rejected"}
    /\ isProcessing' = TRUE
    /\ batch' = [status |-> "running", calls |-> batch.calls + 1,
                 fn |-> "handleApplyBatch", images |-> images,
                 selection |-> SelectionPercent(completedCrop[1], DisplaySize(EditedId)),
                 currentCrop |-> completedCrop[1],
                 aspect |-> aspect, rotation |-> rotation,
                 task |-> [i \in 1..Len(images) |-> NewTask]]
    /\ committed' = TRUE
    /\ lastCall' = <<>>
    /\ UNCHANGED <<images, editingIdx, editorVars, completedCrop, histVars, flagVars,
                   saveRun, sessionImages>>
    /\ UNCHANGED <<viewVars, exportVars>>

\* realX, realY, realW, realH of handleApplyBatch and the canvas: the image is
\* drawn with drawImage alone, no rotation is applied
ApplyBatchCanvas(id, sel) ==
    LET n == NaturalSize(id)
        real == [x |-> RDiv(RMul(sel.x, R(n.w)), R(100)),
                 y |-> RDiv(RMul(sel.y, R(n.h)), R(100)),
                 width |-> RDiv(RMul(sel.width, R(n.w)), R(100)),
                 height |-> RDiv(RMul(sel.height, R(n.h)), R(100))]
    IN  [src |-> id, rect |-> real,
         canvas |-> [width |-> RFloor(real.width), height |-> RFloor(real.height)],
         rotation |-> 0]

\* pxCrop of handleApplyAll and the canvas it is drawn on
ApplyAllCanvas(id, sel, rot) ==
    LET n == NaturalSize(id)
        pxCrop == [x |-> RDiv(RMul(sel.x, R(n.w)), R(100)),
                   y |-> RDiv(RMul(sel.y, R(n.h)), R(100)),
                   width |-> RDiv(RMul(sel.width, R(n.w)), R(100)),
                   height |-> RDiv(RMul(sel.height, R(n.h)), R(100))]
    IN  [src |-> id, rect |-> pxCrop,
         canvas |-> [width |-> RCeil(pxCrop.width), height |-> RCeil(pxCrop.height)],
         rotation |-> rot]

\* getCroppedImg(tempImg, wrapper, currentCrop, options) of applyToAll with
\* expandCanvas false: tempImg is not rendered, so tempImg.width is its
\* naturalWidth and scaleX = scaleY = 1
ApplyToAllCanvas(id, cc) ==
    LET n == NaturalSize(id)
        scaleX == Rat(n.w, n.w)
        scaleY == Rat(n.h, n.h)
        rect == [x |-> RMul(cc.x, scaleX), y |-> RMul(cc.y, scaleY),
                 width |-> RMul(cc.width, scaleX), height |-> RMul(cc.height, scaleY)]
    IN  [src |-> id, rect |-> rect,
         canvas |-> [width |-> RFloor(rect.width), height |-> RFloor(rect.height)],
         rotation |-> 0]

TaskCanvas(b, i) ==
    CASE b.fn = "handleApplyAll" ->
            ApplyAllCanvas(b.images[i].id, b.selection, b.rotation)
      [] b.fn = "handleApplyBatch" ->
            ApplyBatchCanvas(b.images[i].id, b.selection)
      [] OTHER ->
            ApplyToAllCanvas(b.images[i].id, b.currentCrop)

\* the item a callback of images.map returns
TaskResult(b, i) ==
    LET img == b.images[i]
        t == b.task[i]
    IN  IF b.fn \in {"handleApplyAll", "handleApplyBatch"}
        THEN [img EXCEPT
                !.cropped = IF t.blob = "blob" THEN t.out ELSE <<>>,
                !.cropConfig = <<Snap(MkCrop("%", b.selection.x, b.selection.y,
                                             b.selection.width, b.selection.height),
                                      b.aspect, b.rotation)>>]
        ELSE [img EXCEPT !.cropped = t.out]

\* the code after the await of Promise.all
batchResolved(b) ==
    LET updated == [i \in 1..Len(b.images) |-> TaskResult(b, i)]
    IN  /\ images' = updated
        /\ batch' = IdleBatch(b.calls)
        /\ isProcessing' = IF b.fn = "applyToAll" THEN isProcessing ELSE FALSE
        /\ IF b.fn = "handleApplyAll"
           THEN /\ editingIdx' = editingIdx
                /\ sessionEffect(updated, editingIdx)
           ELSE /\ editingIdx' = Null
                /\ sessionEffect(updated, Null)

\* tempImg of task i settles: onload fires and the callback runs to its await of
\* canvas.toBlob ("ok"), or drawing throws and the callback's promise, and
\* with it Promise.all and the batch function, rejects ("renderError"), or the
\* image cannot be decoded, onerror fires, onload never does and the callback
\* waits forever ("decodeError")
taskLoad(i, outcome) ==
    /\ batch.status = "running"
    /\ i \in 1..Len(batch.task)
    /\ batch.task[i].pc = "decoding"
    /\ batch' = CASE outcome = "ok" ->
                       [batch EXCEPT !.task[i].pc = "encoding",
                                     !.task[i].out = <<TaskCanvas(batch, i)>>]
                  [] outcome = "renderError" ->
                       [status |-> "rejected", calls |-> batch.calls]
                  [] OTHER ->
                       [batch EXCEPT !.task[i].pc = "hung"]
    /\ lastCall' = <<>>
    /\ UNCHANGED <<images, editingIdx, editorVars, completedCrop, isProcessing,
                   histVars, flagVars, saveRun, sessionVars>>
    /\ UNCHANGED <<viewVars, exportVars>>

\* canvas.toBlob of task i calls back with a blob (ok) or with null; the last
\* callback to return resolves Promise.all
taskEncode(i, ok) ==
    /\ batch.status = "running"
    /\ i \in 1..Len(batch.task)
    /\ batch.task[i].pc = "encoding"
    /\ lastCall' = <<>>
    /\ IF ~ok /\ batch.fn = "applyToAll"
       THEN \* URL.createObjectURL(blob!) throws in the callback of toBlob:
            \* resolve is never called
            /\ batch' = [batch EXCEPT !.task[i].pc = "hung", !.task[i].blob = "null"]
            /\ UNCHANGED <<images, editingIdx, editorVars, isProcessing, histVars,
                           sessionVars, viewVars, exportVars>>
       ELSE LET b == [batch EXCEPT !.task[i].pc = "done",
                                   !.task[i].blob = IF ok THEN "blob" ELSE "null"]
            IN  IF \A k \in 1..Len(b.task) : b.task[k].pc = "done"
                THEN batchResolved(b)
                ELSE /\ batch' = b
                     /\ UNCHANGED <<images, editingIdx, editorVars, isProcessing,
                                    histVars, sessionVars, viewVars, exportVars>>
    /\ UNCHANGED <<completedCrop, flagVars, saveRun>>

(***************************************************************************)
(* Download of the results.  A file name is the sequence of its pieces:    *)
(* the dots and the texts between them.  downloadFile and downloadAll are   *)
(* those of the v4.5.2 App; downloadAllTimers is downloadAll of the second  *)
(* App of src/index.tsx and handleDownloadAll that of src/App.tsx,          *)
(* followed over the same gallery and the same format setting.              *)
(***************************************************************************)
\* file.name of the files a user adds, in the order they are added
FileName(id) ==
    CASE id = 1 -> <<"photo", ".", "png">>
      [] id = 2 -> <<"my", ".", "photo", ".", "final", ".", "png">>
      [] OTHER  -> <<"README">>

\* name.split('.')[0]: the pieces before the first dot
RECURSIVE SplitFirst(_)
SplitFirst(name) ==
    IF name = <<>> \/ Head(name) = "."
    THEN <<>>
    ELSE <<Head(name)>> \o SplitFirst(Tail(name))

\* the type every canvas.toBlob of the App asks for: 'image/jpeg'
BlobType == "image/jpeg"

\* the file downloadFile hands to the browser for img under format
DownloadedFile(img, format) ==
    LET baseName == SplitFirst(FileName(img.id))
    IN  IF format = "application/pdf"
        THEN [name |-> <<"CROP_">> \o baseName \o <<".", "pdf">>,
              bytes |-> "application/pdf"]
        ELSE [name |-> <<"CROP_">> \o baseName
                         \o <<".", IF format = "image/png" THEN "png" ELSE "jpg">>,
              bytes |-> BlobType]

\* every variable but those of the download and lastCall
nonExportVars == <<images, editingIdx, editorVars, completedCrop, isProcessing,
                   histVars, flagVars, asyncVars, sessionVars, viewVars>>

\* a call of fn over the gallery, before it has looked at an item
NewRun(fn) ==
    [fn |-> fn, items |-> images, format |-> globalFormat,
     task |-> [i \in 1..Len(images) |-> "pending"], sleeping |-> FALSE]

\* downloads with run r set to run
PutRun(r, run) ==
    IF r > Len(downloads) THEN Append(downloads, run) ELSE [downloads EXCEPT ![r] = run]

\* the first item after position i that has a cropped result, 0 if none
NextCropped(items, i) ==
    LET later == {j \in (i + 1)..Len(items) : items[j].cropped # <<>>}
    IN  IF later = {} THEN 0 ELSE CHOOSE j \in later : \A k \in later : j <= k

\* downloadFile(run.items[j]) up to its first await (the PDF branch) or to its
\* end (link.click()); downloadAll then waits for its timer of 400 ms
BeginItem(r, run, j) ==
    IF run.format = "application/pdf"
    THEN /\ downloads' = PutRun(r, [run EXCEPT !.task[j] = "wrapping"])
         /\ saved' = saved
    ELSE /\ downloads' = PutRun(r, [run EXCEPT !.task[j] = "saved",
                                               !.sleeping = (run.fn = "downloadAll")])
         /\ saved' = Append(saved, [run |-> r, idx |-> j,
                                    file |-> DownloadedFile(run.items[j], run.format)])

\* the for loop of downloadAll from the item after position i to its next await
LoopFrom(r, run, i) ==
    LET j == NextCropped(run.items, i)
    IN  IF j = 0
        THEN downloads' = PutRun(r, run) /\ saved' = saved
        ELSE BeginItem(r, run, j)

\* a variant of downloadAll that starts the download of every item at once
downloadAll_ForEach ==
    LET run == NewRun("downloadAll")
        r == Len(downloads) + 1
        cropped == {j \in 1..Len(images) : images[j].cropped # <<>>}
        order == [j \in 1..Len(images) |-> Cardinality({k \in cropped : k <= j})]
    IN  /\ Len(images) > 0
        /\ editingIdx = Null
        /\ IF run.format = "application/pdf"
           THEN /\ downloads' = PutRun(r, [run EXCEPT !.task =
                                   [j \in 1..Len(images) |->
                                       IF j \in cropped THEN "wrapping" ELSE "pending"]])
                /\ saved' = saved
           ELSE /\ downloads' = PutRun(r, [run EXCEPT !.task =
                                   [j \in 1..Len(images) |->
                                       IF j \in cropped THEN "saved" ELSE "pending"]])
                /\ saved' = saved \o
                      [n \in 1..Cardinality(cropped) |->
                          LET j == CHOOSE k \in cropped : order[k] = n
                          IN  [run |-> r, idx |-> j,
                               file |-> DownloadedFile(images[j], run.format)]]
        /\ lastCall' = <<>>
        /\ UNCHANGED <<globalFormat, nonExportVars>>

\* the "download all" button of the header: downloadAll up to its first await
downloadAll ==
    /\ Len(images) > 0
    /\ editingIdx = Null
    /\ LoopFrom(Len(downloads) + 1, NewRun("downloadAll"), 0)
    /\ lastCall' = <<>>
    /\ UNCHANGED <<globalFormat, nonExportVars>>

\* the download button of the grid item at position j: downloadFile(img) up to
\* its first await or to its end
downloadFile(j) ==
    /\ j \in 1..Len(images)
    /\ editingIdx = Null
    /\ images[j].cropped # <<>>
    /\ BeginItem(Len(downloads) + 1, NewRun("downloadFile"), j)
    /\ lastCall' = <<>>
    /\ UNCHANGED <<globalFormat, nonExportVars>>

\* the awaits of the PDF branch of downloadFile settle for item j of run r:
\* pdf.save(); downloadAll then waits for its timer of 400 ms
pdfSaved(r, j) ==
    /\ r \in 1..Len(downloads)
    /\ j \in 1..Len(downloads[r].task)
    /\ downloads[r].task[j] = "wrapping"
    /\ downloads' = [downloads EXCEPT ![r].task[j] = "saved",
                                      ![r].sleeping = (downloads[r].fn = "downloadAll")]
    /\ saved' = Append(saved, [run |-> r, idx |-> j,
                               file |-> DownloadedFile(downloads[r].items[j],
                                                       downloads[r].format)])
    /\ lastCall' = <<>>
    /\ UNCHANGED <<globalFormat, nonExportVars>>

\* the timer of 400 ms of run r fires: the loop goes on after the item it saved
\* last
sleepDone(r) ==
    /\ r \in 1..Len(downloads)
    /\ downloads[r].sleeping
    /\ LET run == [downloads[r] EXCEPT !.sleeping = FALSE]
           done == {j \in 1..Len(run.task) : run.task[j] = "saved"}
           i == CHOOSE j \in done : \A k \in done : k <= j
       IN  LoopFrom(r, run, i)
    /\ lastCall' = <<>>
    /\ UNCHANGED <<globalFormat, nonExportVars>>

\* downloadAll of the second App of src/index.tsx: a timer of idx * 250 ms for
\* every image
downloadAllTimers ==
    /\ Len(images) > 0
    /\ editingIdx = Null
    /\ downloads' = Append(downloads,
                           [NewRun("downloadAllTimers") EXCEPT
                               !.task = [i \in 1..Len(images) |-> "timer"]])
    /\ lastCall' = <<>>
    /\ UNCHANGED <<globalFormat, saved, nonExportVars>>

\* the next timer of run r fires (timers of one window fire in the order of
\* their delays): a.click()
timerFires(r) ==
    /\ r \in 1..Len(downloads)
    /\ \E j \in 1..Len(downloads[r].task) :
          /\ downloads[r].task[j] = "timer"
          /\ \A k \in 1..(j - 1) : downloads[r].task[k] # "timer"
          /\ downloads' = [downloads EXCEPT ![r].task[j] = "saved"]
          /\ saved' = Append(saved,
                 [run |-> r, idx |-> j,
                  file |-> [name |-> <<"crop-">>
                                       \o SplitFirst(FileName(downloads[r].items[j].id))
                                       \o <<".", IF downloads[r].format = "image/png"
                                                 THEN "png"
                                                 ELSE IF downloads[r].format = "image/jpeg"
                                                      THEN "jpeg" ELSE "pdf">>]])
    /\ lastCall' = <<>>
    /\ UNCHANGED <<globalFormat, nonExportVars>>

\* handleDownloadAll of src/App.tsx: images.forEach(handleDownload)
handleDownloadAll ==
    /\ Len(images) > 0
    /\ editingIdx = Null
    /\ downloads' = Append(downloads,
                           [NewRun("handleDownloadAll") EXCEPT
                               !.task = [i \in 1..Len(images) |-> "saved"]])
    /\ saved' = saved \o
          [j \in 1..Len(images) |->
              [run |-> Len(downloads) + 1, idx |-> j,
               file |-> [name |-> <<"cropped-">> \o FileName(images[j].id)]]]
    /\ lastCall' = <<>>
    /\ UNCHANGED <<globalFormat, nonExportVars>>

\* the format select of the editor's toolbar
setGlobalFormat(format) ==
    /\ editingIdx # Null
    /\ globalFormat' = format
    /\ lastCall' = <<>>
    /\ UNCHANGED <<downloads, saved, nonExportVars>>

(***************************************************************************)
(* Zoom and pan of the editor's viewport.  Scroll offsets are kept as they *)
(* are assigned.  A change of zoom re-renders and runs the layout effect    *)
(* before any other handler, so both belong to the step of the handler.     *)
(***************************************************************************)
RMax(p, q) == IF RLess(p, q) THEN q ELSE p

\* Math.min(20, Math.max(0.001, z))
ClampZoom(z) == RMin(R(20), RMax(Rat(1, 1000), z))

\* every variable but the viewport's
nonViewVars == <<images, editingIdx, crop, completedCrop, aspect, rotation, isProcessing,
                 history, historyPointer, isInternalHistoryUpdate, timeouts, saveRun,
                 batch, sessionImages, committed, globalFormat, downloads, saved>>

\* applyZoomScroll: the offsets it assigns
applyZoomScroll(currentZoom, anchorX, anchorY, viewX, viewY) ==
    [l |-> RSub(RAdd(R(PADDING), RMul(anchorX, currentZoom)), viewX),
     t |-> RSub(RAdd(R(PADDING), RMul(anchorY, currentZoom)), viewY)]

\* the viewport: the zoom, the scroll offsets and the zoomState ref
View == [zoom |-> zoom, scroll |-> scroll, zoomState |-> zoomState]

\* a variant of updateZoomAnchor that leaves the padding out of the anchor
updateZoomAnchor_NoPadding(v) ==
    LET viewPosX == Rat(Viewport.w, 2)
        viewPosY == Rat(Viewport.h, 2)
    IN  [v.zoomState EXCEPT
           !.viewX = viewPosX,
           !.viewY = viewPosY,
           !.anchorX = RDiv(RAdd(v.scroll.l, viewPosX), v.zoom),
           !.anchorY = RDiv(RAdd(v.scroll.t, viewPosY), v.zoom)]

\* updateZoomAnchor in the viewport v: zoomState after it
updateZoomAnchor(v) ==
    LET viewPosX == Rat(Viewport.w, 2)
        viewPosY == Rat(Viewport.h, 2)
    IN  [v.zoomState EXCEPT
           !.viewX = viewPosX,
           !.viewY = viewPosY,
           !.anchorX = RDiv(RSub(RAdd(v.scroll.l, viewPosX), R(PADDING)), v.zoom),
           !.anchorY = RDiv(RSub(RAdd(v.scroll.t, viewPosY), R(PADDING)), v.zoom)]

\* p > 0.0001, for p >= 0: n/d > 1/10000 exactly when n > floor(d/10000)
ExceedsThreshold(p) == p[1] > p[2] \div 10000

\* useLayoutEffect on [zoom]: the offsets after it, for the new zoom and the
\* zoomState zs the handler left
LayoutScroll(newZoom, zs, sc) ==
    IF ExceedsThreshold(RAbs(RSub(newZoom, zs.lastZoom)))
    THEN applyZoomScroll(newZoom, zs.anchorX, zs.anchorY, zs.viewX, zs.viewY)
    ELSE sc

\* updateZoomAnchor(); setZoom(z => Math.min(20, Math.max(0.001, z * factor)))
\* and the layout effect
\* the viewport after it, from the viewport v
ZoomedBy(v, factor) ==
    LET zs == updateZoomAnchor(v)
        newZoom == ClampZoom(RMul(v.zoom, factor))
    IN  [zoom |-> newZoom,
         scroll |-> LayoutScroll(newZoom, zs, v.scroll),
         zoomState |-> [zs EXCEPT !.lastZoom = newZoom]]

zoomBy(factor) ==
    LET after == ZoomedBy(View, factor)
    IN  /\ editingIdx # Null
        /\ zoom' = after.zoom
        /\ scroll' = after.scroll
        /\ zoomState' = after.zoomState
        /\ zoomOps' = zoomOps + 1
        /\ lastCall' = <<>>
        /\ UNCHANGED <<isPanMode, isPinching, nonViewVars>>

handleZoomAction(factor) == zoomBy(factor)

\* onWheel of the viewport
onWheel(deltaY) == zoomBy(IF deltaY > 0 THEN Rat(9, 10) ELSE Rat(11, 10))

\* the ResizeObserver callback
resizeObserved ==
    /\ editingIdx # Null
    /\ IF ~zoomState.isPinching
       THEN fitToViewport(EditedId)
       ELSE UNCHANGED <<zoom, scroll, zoomState, zoomOps>>
    /\ lastCall' = <<>>
    /\ UNCHANGED <<isPanMode, isPinching, nonViewVars>>

\* handleTouchStart with two touches dist apart around mid
handleTouchStartTwo(dist, mid) ==
    /\ editingIdx # Null
    /\ isPinching' = TRUE
    /\ zoomState' = [zoomState EXCEPT
                       !.isPinching = TRUE,
                       !.touchStartDist = dist,
                       !.touchStartZoom = zoom,
                       !.viewX = R(mid.x),
                       !.viewY = R(mid.y),
                       !.anchorX = RDiv(RSub(RAdd(scroll.l, R(mid.x)), R(PADDING)), zoom),
                       !.anchorY = RDiv(RSub(RAdd(scroll.t, R(mid.y)), R(PADDING)), zoom)]
    /\ lastCall' = <<>>
    /\ UNCHANGED <<zoom, scroll, isPanMode, zoomOps, nonViewVars>>

\* handleTouchMove with two touches dist apart around mid, and the layout
\* effect
handleTouchMoveTwo(dist, mid) ==
    /\ editingIdx # Null
    /\ IF zoomState.isPinching
       THEN LET ratio == Rat(dist, zoomState.touchStartDist)
                newZoom == ClampZoom(RMul(zoomState.touchStartZoom, ratio))
                zs == [zoomState EXCEPT !.viewX = R(mid.x), !.viewY = R(mid.y)]
                moved == applyZoomScroll(newZoom, zoomState.anchorX, zoomState.anchorY,
                                         R(mid.x), R(mid.y))
            IN  /\ zoom' = newZoom
                /\ scroll' = LayoutScroll(newZoom, zs, moved)
                /\ zoomState' = [zs EXCEPT !.lastZoom = newZoom]
                /\ zoomOps' = zoomOps + 1
       ELSE UNCHANGED <<zoom, scroll, zoomState, zoomOps>>
    /\ lastCall' = <<>>
    /\ UNCHANGED <<isPanMode, isPinching, nonViewVars>>

\* zoomState after a pan starts at p
DragStarted(p) ==
    [zoomState EXCEPT !.isDragging = TRUE,
                      !.dragStartX = p.x, !.dragStartY = p.y,
                      !.dragStartScrollL = scroll.l, !.dragStartScrollT = scroll.t]

\* the offsets a pan assigns when the pointer is at p
DragScroll(p) ==
    [l |-> RSub(zoomState.dragStartScrollL, R(p.x - zoomState.dragStartX)),
     t |-> RSub(zoomState.dragStartScrollT, R(p.y - zoomState.dragStartY))]

\* handleTouchStart with one touch at p
handleTouchStartOne(p) ==
    /\ editingIdx # Null
    /\ zoomState' = IF isPanMode THEN DragStarted(p) ELSE zoomState
    /\ lastCall' = <<>>
    /\ UNCHANGED <<zoom, scroll, isPanMode, isPinching, zoomOps, nonViewVars>>

\* handleTouchMove with one touch at p
handleTouchMoveOne(p) ==
    /\ editingIdx # Null
    /\ scroll' = IF zoomState.isDragging /\ isPanMode THEN DragScroll(p) ELSE scroll
    /\ lastCall' = <<>>
    /\ UNCHANGED <<zoom, zoomState, isPanMode, isPinching, zoomOps, nonViewVars>>

\* onTouchEnd of the viewport
onTouchEnd ==
    /\ editingIdx # Null
    /\ zoomState' = [zoomState EXCEPT !.isPinching = FALSE, !.isDragging = FALSE]
    /\ isPinching' = FALSE
    /\ lastCall' = <<>>
    /\ UNCHANGED <<zoom, scroll, isPanMode, zoomOps, nonViewVars>>

handleMouseDown(p) ==
    /\ editingIdx # Null
    /\ zoomState' = IF isPanMode THEN DragStarted(p) ELSE zoomState
    /\ lastCall' = <<>>
    /\ UNCHANGED <<zoom, scroll, isPanMode, isPinching, zoomOps, nonViewVars>>

\* a variant of handleMouseMove that pans whenever a drag is under way
handleMouseMove_Ungated(p) ==
    /\ editingIdx # Null
    /\ scroll' = IF zoomState.isDragging THEN DragScroll(p) ELSE scroll
    /\ lastCall' = <<>>
    /\ UNCHANGED <<zoom, zoomState, isPanMode, isPinching, zoomOps, nonViewVars>>

handleMouseMove(p) ==
    /\ editingIdx # Null
    /\ scroll' = IF zoomState.isDragging /\ isPanMode THEN DragScroll(p) ELSE scroll
    /\ lastCall' = <<>>
    /\ UNCHANGED <<zoom, zoomState, isPanMode, isPinching, zoomOps, nonViewVars>>

\* handleMouseUp, also onMouseLeave
handleMouseUp ==
    /\ editingIdx # Null
    /\ zoomState' = [zoomState EXCEPT !.isDragging = FALSE]
    /\ lastCall' = <<>>
    /\ UNCHANGED <<zoom, scroll, isPanMode, isPinching, zoomOps, nonViewVars>>

\* the two mode buttons of the toolbar: onClick={() => setIsPanMode(b)}
setIsPanMode(b) ==
    /\ editingIdx # Null
    /\ isPanMode' = b
    /\ lastCall' = <<>>
    /\ UNCHANGED <<zoom, scroll, zoomState, isPinching, zoomOps, nonViewVars>>

\* <ReactCrop disabled={isPanMode || isPinching}>
CropDisabled == isPanMode \/ isPinching

\* the pointer moves to p with the button down: over the selection of an
\* enabled ReactCrop it drags the selection to c (onChange), and the viewport
\* receives the event (handleMouseMove), which pans in pan mode
pointerMove(p, overCrop, c) ==
    IF overCrop /\ ~CropDisabled
    THEN onChange(c)
    ELSE handleMouseMove(p)

\* the button is released: an enabled ReactCrop that was dragged completes
\* (onComplete), and the viewport receives the event (handleMouseUp)
pointerUp(overCrop) ==
    IF overCrop /\ ~CropDisabled /\ ~zoomState.isDragging
    THEN onCropComplete
    ELSE handleMouseUp

\* one finger moves to p: as pointerMove, with handleTouchMove
fingerMove(p, overCrop, c) ==
    IF overCrop /\ ~CropDisabled
    THEN onChange(c)
    ELSE handleTouchMoveOne(p)

\* the finger is lifted: as pointerUp, with onTouchEnd
fingerUp(overCrop) ==
    IF overCrop /\ ~CropDisabled /\ ~zoomState.isDragging /\ ~zoomState.isPinching
    THEN onCropComplete
    ELSE onTouchEnd

(***************************************************************************)
(* Specification of the editor session: gallery, opening and closing the   *)
(* editor, dragging a selection, single save.                              *)
(***************************************************************************)
\* values of the rotation slider (min -180, max 180, step 1) that are tried
SliderValues == {0, 90}

\* values of the aspect buttons that are tried: free and 1:1
AspectValues == {AspectUndefined, R(1)}

\* the bound on the history's length and pointer that a push must respect
PushFits(state) ==
    \/ isInternalHistoryUpdate
    \/ /\ historyPointer < MaxPointer
       /\ \/ IsDuplicate(history, historyPointer, state)
          \/ Len(SliceTo(history, historyPointer + 1)) < MaxHistLen

TimerFits == timeouts < MaxTimeouts

AddImages == \E n \in 1..MaxImages : Len(images) + n <= MaxImages /\ handleAddImages(n)

OpenEditor == \E idx \in 1..MaxImages : openEditor(idx)

Drag == editingIdx # Null /\ \E c \in DragCrops(EditedId) : onChange(c)

DragEnd == PushFits(Snap(crop, aspect, rotation)) /\ onCropComplete

Slider == \E r \in SliderValues : PushFits(Snap(crop, aspect, r)) /\ onRotationChange(r)

ResetRotation == PushFits(Snap(crop, aspect, 0)) /\ onRotationReset

AspectButton ==
    /\ editingIdx # Null
    /\ \E a \in AspectValues :
          PushFits(Snap(AspectCrop(a), a, rotation)) /\ onAspectChange(a)

Undo == TimerFits /\ undo

Redo == TimerFits /\ redo

CloseEditor == navigateTo(Null)

SaveBlob == \E ok \in BOOLEAN : handleSaveBlob(ok)

\* a drag ends while the session has made fewer than MaxSessionPushes pushes
SessionDragEnd == historyPointer < MaxSessionPushes /\ onCropComplete

\* the drag of the spec's scenario: the middle of the image
SessionDrag == editingIdx # Null /\ onChange(PctOfDisplay(EditedId, 25, 25, 50, 50))

Next ==
    \/ AddImages
    \/ OpenEditor
    \/ SessionDrag
    \/ SessionDragEnd
    \/ CloseEditor
    \/ handleSave
    \/ SaveBlob

Spec == Init /\ [][Next]_vars

\* the browser calls every callback of toBlob
SpecFair == Spec /\ WF_vars(SaveBlob)

(***************************************************************************)
(* Specification of the batch apply: gallery, opening the editor, dragging *)
(* a selection, the two batch functions and the steps of their callbacks.  *)
(***************************************************************************)
LoadOutcomes == {"ok", "decodeError", "renderError"}

TaskLoad == \E i \in 1..MaxImages : \E outcome \in LoadOutcomes : taskLoad(i, outcome)

TaskEncode == \E i \in 1..MaxImages : \E ok \in BOOLEAN : taskEncode(i, ok)

BatchFits == batch.calls < MaxBatchCalls

ApplyAll == BatchFits /\ handleApplyAll

ApplyToAll == BatchFits /\ applyToAll

ApplyBatch == BatchFits /\ handleApplyBatch

NextBatch ==
    \/ AddImages
    \/ OpenEditor
    \/ Drag
    \/ SessionDragEnd
    \/ ApplyAll
    \/ ApplyToAll
    \/ ApplyBatch
    \/ Slider
    \/ TaskLoad
    \/ TaskEncode

SpecBatch == Init /\ [][NextBatch]_vars

\* the browser runs every event that is ready: a load or error event of an
\* image that was given a src, a callback of toBlob
SpecBatchFair == SpecBatch /\ WF_vars(TaskLoad) /\ WF_vars(TaskEncode)

(***************************************************************************)
(* Specification of switching the edited item: navigateTo with every index *)
(* of the gallery, and the previous / next buttons of src/index.tsx.        *)
(***************************************************************************)
NavigateTo == \E idx \in 0..MaxImages : idx <= Len(images) /\ navigateTo(idx)

StepEditingIndex == \E delta \in {-1, 1} : stepEditingIndex(delta)

NextSwitch ==
    \/ AddImages
    \/ OpenEditor
    \/ SessionDrag
    \/ SessionDragEnd
    \/ NavigateTo
    \/ StepEditingIndex

SpecSwitch == Init /\ [][NextSwitch]_vars

(***************************************************************************)
(* Specification of the single save of src/App.tsx and of src/index.tsx.   *)
(***************************************************************************)
SaveOutcomes == {"ok", "decodeError", "renderError"}

HandleSaveCropSettled == \E outcome \in SaveOutcomes : handleSaveCropSettled(outcome)

SaveCrop == \E outcome \in {"ok", "renderError"} : saveCrop(outcome)

SaveCropBlob == \E ok \in BOOLEAN : saveCropBlob(ok)

NextSave ==
    \/ AddImages
    \/ OpenEditor
    \/ SessionDrag
    \/ SessionDragEnd
    \/ handleSaveCrop
    \/ HandleSaveCropSettled
    \/ SaveCrop
    \/ SaveCropBlob

SpecSave == Init /\ [][NextSave]_vars

(***************************************************************************)
(* Specification of zooming: wheel, zoom action, pinch and refit.          *)
(***************************************************************************)
ZoomFactors == {R(2), Rat(1, 2)}

WheelDeltas == {-100, 100}

\* distances between two fingers, and midpoints of a pinch in the viewport
PinchDists == {5, 100, 105}

PinchMids == {[x |-> 120, y |-> 90]}

\* the zoom changes the model follows
ZoomFits(z) == zoomOps < MaxZoomOps /\ z[1] <= MaxZoomNum /\ z[2] <= MaxZoomDen

AddImagesView ==
    \E n \in 1..MaxViewImages :
       editingIdx = Null /\ Len(images) + n <= MaxViewImages /\ handleAddImages(n)

OpenEditorView == \E idx \in 1..MaxViewImages : openEditor(idx)

ZoomAction ==
    \E factor \in ZoomFactors :
       ZoomFits(ClampZoom(RMul(zoom, factor))) /\ handleZoomAction(factor)

Wheel ==
    \E deltaY \in WheelDeltas :
       /\ ZoomFits(ClampZoom(RMul(zoom, IF deltaY > 0 THEN Rat(9, 10) ELSE Rat(11, 10))))
       /\ onWheel(deltaY)

TouchStartTwo ==
    \E dist \in PinchDists, mid \in PinchMids :
       ~zoomState.isPinching /\ handleTouchStartTwo(dist, mid)

TouchMoveTwo ==
    \E dist \in PinchDists, mid \in PinchMids :
       /\ zoomState.isPinching
       /\ ZoomFits(ClampZoom(RMul(zoomState.touchStartZoom,
                                   Rat(dist, zoomState.touchStartDist))))
       /\ handleTouchMoveTwo(dist, mid)

NextZoom ==
    \/ AddImagesView
    \/ OpenEditorView
    \/ ZoomAction
    \/ Wheel
    \/ TouchStartTwo
    \/ TouchMoveTwo
    \/ onTouchEnd
    \/ resizeObserved

SpecZoom == Init /\ [][NextZoom]_vars

(***************************************************************************)
(* Specification of single-pointer drags: panning and rectangle editing.   *)
(***************************************************************************)
\* positions of the pointer in the viewport
PanPoints == {[x |-> 100, y |-> 100], [x |-> 160, y |-> 130]}

\* the pans the model follows: the offsets stay within MaxPanOffset of the
\* offsets of the image's origin
PanFits(sc) ==
    /\ ~RLess(R(MaxPanOffset), RAbs(RSub(sc.l, R(PADDING))))
    /\ ~RLess(R(MaxPanOffset), RAbs(RSub(sc.t, R(PADDING))))

AddImagesPan ==
    \E n \in 1..MaxHistImages :
       editingIdx = Null /\ Len(images) + n <= MaxHistImages /\ handleAddImages(n)

OpenEditorPan == \E idx \in 1..MaxHistImages : openEditor(idx)

SetPanMode == \E b \in BOOLEAN : setIsPanMode(b)

MouseDown == \E p \in PanPoints : handleMouseDown(p)

\* the drag a pointer makes over the selection: the middle of the image
PointerMove ==
    \E p \in PanPoints, overCrop \in BOOLEAN :
       /\ editingIdx # Null
       /\ zoomState.isDragging => PanFits(DragScroll(p))
       /\ pointerMove(p, overCrop, PctOfDisplay(EditedId, 25, 25, 50, 50))

PointerUp ==
    \E overCrop \in BOOLEAN :
       /\ editingIdx # Null
       /\ historyPointer < MaxSessionPushes
       /\ pointerUp(overCrop)

TouchStartOne == \E p \in PanPoints : handleTouchStartOne(p)

FingerMove ==
    \E p \in PanPoints, overCrop \in BOOLEAN :
       /\ editingIdx # Null
       /\ zoomState.isDragging => PanFits(DragScroll(p))
       /\ fingerMove(p, overCrop, PctOfDisplay(EditedId, 25, 25, 50, 50))

FingerUp ==
    \E overCrop \in BOOLEAN :
       /\ editingIdx # Null
       /\ historyPointer < MaxSessionPushes
       /\ fingerUp(overCrop)

NextPan ==
    \/ AddImagesPan
    \/ OpenEditorPan
    \/ CloseEditor
    \/ SetPanMode
    \/ MouseDown
    \/ PointerMove
    \/ PointerUp
    \/ TouchStartOne
    \/ FingerMove
    \/ FingerUp

SpecPan == Init /\ [][NextPan]_vars

(***************************************************************************)
(* Specification of the aspect chips of the editor.                        *)
(***************************************************************************)
\* the values of the aspect chips: free, original, 1:1, 16:9, 9:16, 4:5
AspectChips ==
    {AspectUndefined, currentOriginalAspect, R(1), Rat(16, 9), Rat(9, 16), Rat(4, 5)}

AddImagesAspect ==
    \E n \in 1..MaxAspectImages :
       editingIdx = Null /\ Len(images) + n <= MaxAspectImages /\ handleAddImages(n)

OpenEditorAspect == \E idx \in 1..MaxAspectImages : openEditor(idx)

AspectChip ==
    /\ editingIdx # Null
    /\ historyPointer < MaxAspectPushes
    /\ \E a \in AspectChips : onAspectChange(a)

NextAspect ==
    \/ AddImagesAspect
    \/ OpenEditorAspect
    \/ AspectChip

SpecAspect == Init /\ [][NextAspect]_vars

(***************************************************************************)
(* Specification of one editing session's history: every control that      *)
(* pushes, undo, redo and the timer, with the history's length bounded.    *)
(***************************************************************************)
AddImagesHist ==
    \E n \in 1..MaxHistImages : Len(images) + n <= MaxHistImages /\ handleAddImages(n)

OpenEditorHist == \E idx \in 1..MaxHistImages : openEditor(idx)

NextHist ==
    \/ AddImagesHist
    \/ OpenEditorHist
    \/ Drag
    \/ DragEnd
    \/ Slider
    \/ ResetRotation
    \/ AspectButton
    \/ Undo
    \/ Redo
    \/ internalUpdateTimeout

SpecHist == Init /\ [][NextHist]_vars

(***************************************************************************)
(* Specification of the history at its capacity: the rotation controls,    *)
(* undo, redo and the timer, with no bound on the history but its own.     *)
(***************************************************************************)
SliderCap == \E r \in SliderValues : onRotationChange(r)

NextCap ==
    \/ AddImagesHist
    \/ OpenEditorHist
    \/ SliderCap
    \/ onRotationReset
    \/ Undo
    \/ Redo
    \/ internalUpdateTimeout

SpecCap == Init /\ [][NextCap]_vars

(***************************************************************************)
(* Specification of the rotation controls: the slider at its ends, the     *)
(* rotate buttons, reset, undo, redo and the timer.                        *)
(***************************************************************************)
\* the ends of the slider: min="-180" max="180"
SliderEnds == {-180, 180}

SliderRotate == \E r \in SliderEnds : PushFits(Snap(crop, aspect, r)) /\ onRotationChange(r)

RotateStep ==
    \E delta \in {-1, 1} :
        /\ rotation + delta >= -MaxRotation
        /\ rotation + delta <= MaxRotation
        /\ rotateStep(delta)

NextRotate ==
    \/ AddImagesHist
    \/ OpenEditorHist
    \/ SliderRotate
    \/ RotateStep
    \/ ResetRotation
    \/ Undo
    \/ Redo
    \/ internalUpdateTimeout

SpecRotate == Init /\ [][NextRotate]_vars

(***************************************************************************)
(* Specification of the download: gallery, single save, the format select  *)
(* and the download buttons with the steps of their callbacks.             *)
(***************************************************************************)
Formats == {"image/jpeg", "image/png", "application/pdf"}

DownloadFits == Len(downloads) < MaxDownloadRuns

SetGlobalFormat == \E format \in Formats : format # globalFormat /\ setGlobalFormat(format)

DownloadAll == DownloadFits /\ downloadAll

DownloadFile == DownloadFits /\ \E j \in 1..MaxImages : downloadFile(j)

PdfSaved == \E r \in 1..MaxDownloadRuns : \E j \in 1..MaxImages : pdfSaved(r, j)

SleepDone == \E r \in 1..MaxDownloadRuns : sleepDone(r)

DownloadAllTimers == DownloadFits /\ downloadAllTimers

TimerFires == \E r \in 1..MaxDownloadRuns : timerFires(r)

HandleDownloadAll == DownloadFits /\ handleDownloadAll

\* the files are added at once, and edited before the first download
AddImagesDownload == images = <<>> /\ handleAddImages(MaxImages)

OpenEditorDownload == downloads = <<>> /\ OpenEditor

NextDownload ==
    \/ AddImagesDownload
    \/ OpenEditorDownload
    \/ SessionDragEnd
    \/ CloseEditor
    \/ handleSave
    \/ SaveBlob
    \/ SetGlobalFormat
    \/ DownloadAll
    \/ DownloadFile
    \/ PdfSaved
    \/ SleepDone
    \/ DownloadAllTimers
    \/ TimerFires
    \/ HandleDownloadAll

SpecDownload == Init /\ [][NextDownload]_vars

(***************************************************************************)
(* Specification of a save after edits: one session's drags, aspect        *)
(* buttons, undo and redo, and the single save.                            *)
(***************************************************************************)
DragCrop ==
    /\ editingIdx # Null
    /\ \E c \in DragCrops(EditedId) : PushFits(Snap(c, aspect, rotation)) /\ dragCrop(c)

NextCommit ==
    \/ AddImagesHist
    \/ OpenEditorHist
    \/ DragCrop
    \/ AspectButton
    \/ Undo
    \/ Redo
    \/ internalUpdateTimeout
    \/ CloseEditor
    \/ handleSave
    \/ SaveBlob

SpecCommit == Init /\ [][NextCommit]_vars

(***************************************************************************)
(* Specification of the save and batch buttons of the editor pressed one   *)
(* after the other.                                                        *)
(***************************************************************************)
NextExclusive ==
    \/ AddImagesHist
    \/ OpenEditorHist
    \/ SessionDragEnd
    \/ handleSave
    \/ SaveBlob
    \/ ApplyAll
    \/ ApplyBatch
    \/ TaskLoad
    \/ TaskEncode

SpecExclusive == Init /\ [][NextExclusive]_vars

(***************************************************************************)
(* Claims about the history stack.                                         *)
(***************************************************************************)
EditorNext == Snap(crop', aspect', rotation')

\* the last step called pushToHistory
Called == lastCall # <<>> /\ lastCall[1].op = "pushToHistory"

\* the history and the pointer that call found, and its argument
PreHistory == lastCall[1].history

PrePointer == lastCall[1].historyPointer

Pushed == lastCall[1].state

PreInRange == PrePointer >= 0 /\ PrePointer < Len(PreHistory)

\* the call appended its argument
Effective ==
    /\ Called
    /\ ~lastCall[1].internal
    /\ ~IsDuplicate(PreHistory, PrePointer, Pushed)

\* the entry that was current before the call: the one the call compared with
Prior ==
    LET kept == SliceTo(PreHistory, PrePointer + 1)
    IN  IF Len(kept) > 0 THEN <<kept[Len(kept)]>> ELSE <<>>

\* C1: pushToHistory with a snapshot equal to the entry at the pointer leaves
\* the length of the history and historyPointer unchanged.
C1_PushSameIsNoOp ==
    (Called /\ PreInRange /\ At(PreHistory, PrePointer) = Pushed)
    => (Len(history) = Len(PreHistory) /\ historyPointer = PrePointer)

\* C7: undo() right after one effective push restores crop, aspect and rotation
\* to the snapshot that was current before that push.
C7_UndoAfterPushRestores ==
    [][(Effective /\ undo) => <<EditorNext>> = Prior]_vars

\* C8: undo() at the first entry and redo() at the last entry change nothing;
\* in every other state they move the pointer by one and load the snapshot at
\* the new pointer position.
C8_UndoRedoStep ==
    [][/\ undo =>
            IF historyPointer = 0
            THEN UNCHANGED <<historyPointer, history, crop, aspect, rotation>>
            ELSE /\ historyPointer' = historyPointer - 1
                 /\ history' = history
                 /\ historyPointer' >= 0 /\ historyPointer' < Len(history)
                 /\ EditorNext = At(history, historyPointer')
       /\ redo =>
            IF historyPointer = Len(history) - 1
            THEN UNCHANGED <<historyPointer, history, crop, aspect, rotation>>
            ELSE /\ historyPointer' = historyPointer + 1
                 /\ history' = history
                 /\ historyPointer' >= 0 /\ historyPointer' < Len(history)
                 /\ EditorNext = At(history, historyPointer')]_vars

\* the effect C9 describes: the entries after the pointer are removed, the
\* pushed snapshot is the last entry, the pointer refers to it, and redo()
\* finds nothing to redo
BranchDiscarded ==
    /\ history = Append(SliceTo(PreHistory, PrePointer + 1), Pushed)
    /\ historyPointer = Len(history) - 1

\* the case of C9: the pointer was before the last entry and the pushed
\* snapshot differs from the entry at the pointer
BranchCase ==
    /\ Called
    /\ PreInRange /\ PrePointer < Len(PreHistory) - 1
    /\ At(PreHistory, PrePointer) # Pushed

\* C9 as stated: with the pointer before the last entry, pushing a snapshot
\* that differs from the entry at the pointer discards the undone branch.
C9_PushDiscardsBranch_AsStated == BranchCase => BranchDiscarded

\* C9 as amended: the same, for a push made while isInternalHistoryUpdate is
\* false (pushToHistory ignores every call made while it is true).
C9_PushDiscardsBranch == (BranchCase /\ ~lastCall[1].internal) => BranchDiscarded

C9_Witness ==
    /\ BranchCase /\ ~lastCall[1].internal
    /\ Len(history) = PrePointer + 2
    /\ history[Len(history)] = Pushed

\* the effect C10 describes: the oldest entry is evicted, the pushed snapshot
\* is the last entry and the pointer refers to it
OldestEvicted ==
    /\ history = Append(Tail(PreHistory), Pushed)
    /\ historyPointer = Len(history) - 1

\* the case of C10: a snapshot that differs from the entry at the pointer was
\* pushed onto a full history
FullCase ==
    /\ Called
    /\ Len(PreHistory) = HistoryCap
    /\ PreInRange
    /\ At(PreHistory, PrePointer) # Pushed

\* C10 as stated: the history never holds more than 50 snapshots, and pushing a
\* new distinct snapshot onto a full history evicts the oldest entry and leaves
\* the pointer on the appended entry.
C10_Capacity_AsStated ==
    /\ Len(history) <= HistoryCap
    /\ FullCase => OldestEvicted

\* C10 as amended: the eviction is that of a push made with the pointer on the
\* last entry of the full history while isInternalHistoryUpdate is false.
C10_Capacity ==
    /\ Len(history) <= HistoryCap
    /\ (FullCase /\ ~lastCall[1].internal /\ PrePointer = Len(PreHistory) - 1)
       => OldestEvicted

C10_Witness ==
    /\ FullCase /\ ~lastCall[1].internal /\ PrePointer = Len(PreHistory) - 1
    /\ Len(history) = HistoryCap
    /\ historyPointer = LastSlot

(***************************************************************************)
(* Claims about closing the editor and about the batch apply.              *)
(***************************************************************************)
\* C2: closing the editor when neither handleSave nor handleApplyAll was called
\* since the session started leaves every gallery item, the edited one with
\* its cropConfig and its output included, as it was when the session started.
C2_CloseWithoutCommit ==
    [][(~committed /\ navigateTo(Null)) => images' = sessionImages]_vars

\* decoding or drawing failed for an item of the batch call that is awaited
TaskFailed ==
    \/ batch.status = "rejected"
    \/ /\ batch.status = "running"
       /\ \E i \in 1..Len(batch.task) :
             batch.task[i].pc = "hung" /\ batch.task[i].blob = "pending"

\* C3: when decoding or rendering fails for one item of a batch call, that call
\* still completes: its Promise.all settles and the code after it runs.
C3_BatchIsolatesFailures ==
    \A n \in 1..MaxBatchCalls :
        (TaskFailed /\ batch.calls = n) ~> (batch.status = "idle" /\ batch.calls = n)

\* C4: an item whose encode step yielded no data keeps the output and the
\* saved snapshot it had, in a single save and in a batch apply.
C4_EncodeFailureKeepsState ==
    [][/\ handleSaveBlob(FALSE) => images' = images
       /\ (batch.status = "running" /\ batch'.status = "idle") =>
             \A i \in 1..Len(batch.task) :
                 batch.task[i].blob = "null" =>
                     /\ images'[i].cropped = images[i].cropped
                     /\ images'[i].cropConfig = images[i].cropConfig]_vars

\* the items of the awaited batch call that are being decoded, drawn or encoded
InFlight ==
    IF batch.status = "running"
    THEN {i \in 1..Len(batch.task) : batch.task[i].pc \in {"decoding", "encoding"}}
    ELSE {}

\* C5: during a batch apply at most one item is being decoded, drawn or
\* encoded at any time.
C5_BatchSequential == Cardinality(InFlight) <= 1

\* the pixel rectangle of a selection given in percent on an image of the
\* native size of item id
OwnNativeRect(sel, id) ==
    LET n == NaturalSize(id)
    IN  [x |-> RDiv(RMul(sel.x, R(n.w)), R(100)),
         y |-> RDiv(RMul(sel.y, R(n.h)), R(100)),
         width |-> RDiv(RMul(sel.width, R(n.w)), R(100)),
         height |-> RDiv(RMul(sel.height, R(n.h)), R(100))]

\* C6: the pixel rectangle a batch apply uses for an item is the reference
\* selection's percentages of that item's own native width and height.
C6_BatchUsesOwnNativeSize ==
    batch.status = "running" =>
        \A i \in 1..Len(batch.task) :
            batch.task[i].out # <<>> =>
                batch.task[i].out[1].rect =
                    OwnNativeRect(batch.selection, batch.images[i].id)

\* the same for the calls of handleApplyAll alone
ApplyAllUsesOwnNativeSize ==
    (batch.status = "running" /\ batch.fn = "handleApplyAll") =>
        \A i \in 1..Len(batch.task) :
            batch.task[i].out # <<>> =>
                batch.task[i].out[1].rect =
                    OwnNativeRect(batch.selection, batch.images[i].id)

(***************************************************************************)
(* Claims about the editor session.                                        *)
(***************************************************************************)
\* the snapshot a session on item it starts from
StartSnapshot(it) ==
    IF it.cropConfig # <<>> THEN it.cropConfig[1] ELSE Snap(FullCrop, AspectUndefined, 0)

\* C11: whenever the editor is opened on an item, the history is exactly one
\* entry with the pointer at 0, and that entry and the editor's crop, aspect
\* and rotation equal the item's cropConfig, or the default snapshot if the
\* item has none.
C11_SessionStart ==
    [][(editingIdx = Null /\ editingIdx' # Null) =>
          /\ history' = <<StartSnapshot(images'[editingIdx'])>>
          /\ historyPointer' = 0
          /\ EditorNext = StartSnapshot(images'[editingIdx'])]_vars

\* a session that has just started on an item with a saved snapshot other than
\* the default one
C11_Witness ==
    /\ editingIdx # Null
    /\ images[editingIdx].cropConfig # <<>>
    /\ images[editingIdx].cropConfig[1].crop # FullCrop
    /\ history = <<images[editingIdx].cropConfig[1]>>
    /\ historyPointer = 0
    /\ crop = images[editingIdx].cropConfig[1].crop

\* the edited item changes from one item to another
Switching == editingIdx # Null /\ editingIdx' # Null /\ editingIdx' # editingIdx

\* the effect C12 describes: the session's snapshot is on the outgoing item, no
\* other item changed, and the editor shows the incoming item's snapshot
SwitchPersists ==
    /\ images' = WithConfig(images, editingIdx, crop, aspect, rotation)
    /\ EditorNext = StartSnapshot(images'[editingIdx'])

\* C12: switching the edited item writes the session's crop, aspect and
\* rotation onto the outgoing item and onto no other, and initialises crop,
\* aspect and rotation from the incoming item's saved snapshot.
C12_SwitchPersistsThenLoads == [][Switching => SwitchPersists]_vars

\* the same for the switches made by navigateTo alone
NavigateToPersistsThenLoads ==
    [][(Switching /\ \E idx \in 1..MaxImages : navigateTo(idx)) => SwitchPersists]_vars

\* the saved snapshot of the reference selection of batch call b
ReferenceSnapshot(b) ==
    Snap(MkCrop("%", b.selection.x, b.selection.y, b.selection.width, b.selection.height),
         b.aspect, b.rotation)

\* C13: when a batch apply completes, every item of the batch has an output
\* bitmap rendered with the rotation of the reference selection, and a saved
\* snapshot equal to the reference selection's percentages, aspect and
\* rotation.
C13_BatchResults ==
    [][(batch.status = "running" /\ batch.fn # "applyToAll" /\ batch'.status = "idle") =>
          \A i \in 1..Len(batch.images) :
             /\ images'[i].cropped # <<>>
             /\ images'[i].cropped[1].rotation = batch.rotation
             /\ images'[i].cropConfig = <<ReferenceSnapshot(batch)>>]_vars

(***************************************************************************)
(* C14.  A failure of a single save is contained.                           *)
(***************************************************************************)
\* the last step was a single save failing to decode or to render
DecodeOrRenderFailed ==
    /\ lastCall # <<>>
    /\ lastCall[1].op = "saveFailed"
    /\ lastCall[1].outcome \in {"decodeError", "renderError"}

\* the guards of handleSaveCrop and of saveCrop that a failure could leave
\* false: an open editor, no save pending, and isProcessing cleared
SaveStillPossible == editingIdx # Null /\ saveRun = <<>> /\ ~isProcessing

\* C14: when decoding or rendering fails during handleSaveCrop or saveCrop, no
\* gallery item is modified, the editor stays open on the same item with its
\* crop, aspect, rotation, completed crop and history intact, and a later save
\* is still possible
C14_SaveFailureContained ==
    [][DecodeOrRenderFailed' =>
          /\ images' = images
          /\ editingIdx' = editingIdx
          /\ editingIdx' # Null
          /\ UNCHANGED <<editorVars, completedCrop, histVars>>
          /\ SaveStillPossible']_vars

\* a save of handleSaveCrop has just failed to decode, after a drag
C14_Witness ==
    /\ DecodeOrRenderFailed
    /\ lastCall[1].fn = "handleSaveCrop"
    /\ lastCall[1].outcome = "decodeError"
    /\ editingIdx # Null
    /\ completedCrop # <<>>
    /\ Len(images) = 2

(***************************************************************************)
(* C15.  The zoom stays within its range.                                   *)
(***************************************************************************)
InZoomRange(z) == ~RLess(z, Rat(1, 1000)) /\ ~RLess(R(20), z)

\* C15: in every reachable editor state, after any sequence of button, wheel,
\* pinch and fitToViewport operations, zoom is positive and within [0.001, 20]
C15_ZoomRange == editingIdx # Null => (zoom[1] > 0 /\ InZoomRange(zoom))

\* the part that holds: a wheel, zoom action or pinch step leaves the zoom in
\* range
ZoomChangeInRange == [][zoomOps' = zoomOps + 1 => InZoomRange(zoom')]_vars

(***************************************************************************)
(* C16.  A zoom change keeps the image point under the focal point.         *)
(***************************************************************************)
\* the image-space point shown at the screen point (vx, vy) of the viewport
ImagePointAt(sc, vx, vy, z) ==
    [x |-> RDiv(RSub(RAdd(sc.l, vx), R(PADDING)), z),
     y |-> RDiv(RSub(RAdd(sc.t, vy), R(PADDING)), z)]

\* the step is a wheel, zoom action or pinch step that changed the zoom
ZoomChanged == zoomOps' = zoomOps + 1 /\ zoom' # zoom

\* the image point under the focal point of the step (the centre of the
\* viewport for the wheel and the zoom action, the midpoint of the fingers for
\* a pinch) is the same before and after
Anchored ==
    ImagePointAt(scroll', zoomState'.viewX, zoomState'.viewY, zoom')
      = ImagePointAt(scroll, zoomState'.viewX, zoomState'.viewY, zoom)

\* C16: for every zoom change (button, wheel or pinch) the image-space point
\* under the focal screen point before the change is under the same screen
\* point after the scroll offset has been recomputed
C16_AnchorPreserved == [][ZoomChanged => Anchored]_vars

(***************************************************************************)
(* C17.  Zooming in by 2 and out by 0.5 is a round trip.                    *)
(***************************************************************************)
\* the viewport after handleZoomAction(2) and then handleZoomAction(0.5)
RoundTrip == ZoomedBy(ZoomedBy(View, R(2)), Rat(1, 2))

\* the image point under the focal point of the zoom action, the centre of the
\* viewport
UnderCentre(v) == ImagePointAt(v.scroll, Rat(Viewport.w, 2), Rat(Viewport.h, 2), v.zoom)

RoundTripReturns ==
    /\ RoundTrip.zoom = zoom
    /\ UnderCentre(RoundTrip) = UnderCentre(View)

\* C17 as stated: from any reachable zoom value, zooming by 2.0 and then by
\* 0.5 at the same focal point returns zoom to its original value and leaves
\* the image point under the focal point unchanged
C17_RoundTrip_AsStated == editingIdx # Null => RoundTripReturns

\* C17 amended: the same from any reachable zoom value between 0.001 and 10,
\* for which doubling stays within the range; the scroll offsets return too
C17_RoundTrip ==
    (editingIdx # Null /\ InZoomRange(zoom) /\ ~RLess(R(10), zoom)) =>
        (RoundTripReturns /\ RoundTrip.scroll = scroll)

\* the two zoom actions were made from the fitted view of an image whose
\* fitted zoom is at most 10, and the view is the fitted one again
C17_Witness ==
    /\ editingIdx # Null
    /\ zoomOps = 2
    /\ ~RLess(R(10), zoom)
    /\ zoom = FitRatio(EditedId)
    /\ zoomState.viewX = Rat(Viewport.w, 2)
    /\ zoomState.anchorX = UnderCentre(View).x
    /\ UnderCentre(View).x = Rat(NaturalSize(EditedId).w, 2)

(***************************************************************************)
(* C18.  Panning is gated by pan mode and leaves the editor state alone.    *)
(***************************************************************************)
\* the step is a step of a single-pointer drag: the pointer or one finger goes
\* down, moves or goes up
SinglePointerDrag ==
    /\ editingIdx # Null
    /\ \/ \E p \in PanPoints : handleMouseDown(p) \/ handleTouchStartOne(p)
       \/ \E p \in PanPoints, overCrop \in BOOLEAN :
             \/ pointerMove(p, overCrop, PctOfDisplay(EditedId, 25, 25, 50, 50))
             \/ fingerMove(p, overCrop, PctOfDisplay(EditedId, 25, 25, 50, 50))
       \/ \E overCrop \in BOOLEAN : pointerUp(overCrop) \/ fingerUp(overCrop)

\* an editor session starts
SessionStarts == editingIdx = Null /\ editingIdx' # Null

\* C18 as stated: a single-pointer drag changes the scroll offset only while
\* pan mode is on, and in either mode it leaves zoom, crop, aspect, rotation
\* and the history unchanged; pan mode is off whenever a session starts
C18_PanGated_AsStated ==
    [][/\ SinglePointerDrag =>
            /\ scroll' # scroll => isPanMode
            /\ UNCHANGED <<zoom, crop, aspect, rotation, history>>
       /\ SessionStarts => ~isPanMode']_vars

\* C18 amended: a single-pointer drag changes the scroll offset only while pan
\* mode is on and never changes zoom, aspect or rotation; while pan mode is
\* on it leaves the crop and the history unchanged as well (with pan mode
\* off a drag over the selection edits the rectangle and its end is recorded
\* in the history); pan mode is off whenever a session starts
C18_PanGated ==
    [][/\ SinglePointerDrag =>
            /\ scroll' # scroll => isPanMode
            /\ UNCHANGED <<zoom, aspect, rotation>>
            /\ isPanMode => UNCHANGED <<crop, history>>
       /\ SessionStarts => ~isPanMode']_vars

\* a pan that started from a fitted view is under way in pan mode and has
\* moved the view
C18_Witness ==
    /\ editingIdx # Null
    /\ isPanMode
    /\ zoomState.isDragging
    /\ scroll # [l |-> zoomState.dragStartScrollL, t |-> zoomState.dragStartScrollT]
    /\ zoomState.dragStartScrollL # R(0)

(***************************************************************************)
(* C19.  The pixel rect handed to rendering lies within the image.          *)
(***************************************************************************)
\* rect has a positive size and lies within the native frame of image id
WithinNative(rect, id) ==
    /\ RLess(R(0), rect.width)
    /\ RLess(R(0), rect.height)
    /\ ~RLess(rect.x, R(0))
    /\ ~RLess(rect.y, R(0))
    /\ ~RLess(R(NaturalSize(id).w), RAdd(rect.x, rect.width))
    /\ ~RLess(R(NaturalSize(id).h), RAdd(rect.y, rect.height))

\* C19: the pixel rect that getProcessedCanvas derives for a save has a
\* positive size and lies within the native dimensions of the image; a rect
\* that would fall outside is clamped instead of being passed on to rendering
C19_PixelRectInBounds ==
    (saveRun # <<>> /\ saveRun[1].fn = "handleSave") =>
        WithinNative(saveRun[1].canvas.rect, saveRun[1].canvas.src)

(***************************************************************************)
(* C20.  An aspect near the native one selects the full frame.              *)
(***************************************************************************)
\* a is within 0.001 of naturalWidth / naturalHeight of the edited image
NearNative(a) ==
    RLess(RAbs(RSub(a, Rat(NaturalSize(EditedId).w, NaturalSize(EditedId).h))),
          Rat(1, 1000))

\* C20: onAspectChange with an aspect that is undefined or within 0.001 of the
\* image's native aspect sets the crop to the full frame, whatever the
\* previous aspect was; with any other aspect it never sets the full frame
C20_NearNativeFullFrame ==
    [][editingIdx # Null =>
          \A a \in AspectChips :
             onAspectChange(a) =>
                (crop' = FullCrop <=> (a = AspectUndefined \/ NearNative(a)))]_vars

\* the original chip was pressed while the aspect was 16/9, and the crop is the
\* full frame
C20_Witness ==
    /\ editingIdx # Null
    /\ Called
    /\ PreInRange
    /\ At(PreHistory, PrePointer).aspect = Rat(16, 9)
    /\ Pushed.aspect = Rat(NaturalSize(EditedId).w, NaturalSize(EditedId).h)
    /\ aspect = Pushed.aspect
    /\ crop = FullCrop

(***************************************************************************)
(* C21.  The rotation stays in (-180, 180].                                 *)
(***************************************************************************)
\* an integer number of degrees in (-180, 180]
InRotationRange(r) == r \in Int /\ r > -180 /\ r <= 180

\* C21: in every editor state, and in every saved snapshot (the entries of the
\* history and the cropConfig of every item), the rotation is an integer in
\* (-180, 180]
C21_RotationRange ==
    /\ editingIdx # Null => InRotationRange(rotation)
    /\ \A k \in 1..Len(history) : InRotationRange(history[k].rotation)
    /\ \A k \in 1..Len(images) :
          images[k].cropConfig # <<>> => InRotationRange(images[k].cropConfig[1].rotation)

\* the slider alone: no value it pushes lies outside [-180, 180], its lower end
\* included
SliderWithinEnds == \A k \in 1..Len(history) : history[k].rotation \in -180..180

(***************************************************************************)
(* C22.  Download-all is sequential.                                        *)
(***************************************************************************)
Drivers == {"downloadAll", "downloadAllTimers", "handleDownloadAll"}

\* the save of item j of run has been triggered
Triggered(run, j) == run.task[j] \in {"wrapping", "saved"}

\* C22: in every call of a download-all driver the save of an item is
\* triggered only after the export of every item before it that the driver
\* exports has completed (PDF wrapping included), and the files reach the
\* browser in gallery order
C22_DownloadSequential ==
    /\ \A r \in 1..Len(downloads) :
          downloads[r].fn \in Drivers =>
             \A i, j \in 1..Len(downloads[r].task) :
                (i < j /\ Triggered(downloads[r], j)) =>
                    \/ downloads[r].task[i] = "saved"
                    \/ /\ downloads[r].fn = "downloadAll"
                       /\ downloads[r].items[i].cropped = <<>>
    /\ \A a, b \in 1..Len(saved) :
          (a < b /\ saved[a].run = saved[b].run
                 /\ downloads[saved[a].run].fn \in Drivers) =>
              saved[a].idx < saved[b].idx

\* downloadAll has saved the PDF of the first of two results and is wrapping
\* the second
C22_Witness ==
    \E r \in 1..Len(downloads) :
       /\ downloads[r].fn = "downloadAll"
       /\ downloads[r].format = "application/pdf"
       /\ Len(downloads[r].task) = 2
       /\ downloads[r].task[1] = "saved"
       /\ downloads[r].task[2] = "wrapping"

(***************************************************************************)
(* C23.  The exported name keeps everything before the last dot.            *)
(***************************************************************************)
\* the position of the last dot of name, 0 if it has none
LastDot(name) ==
    LET dots == {k \in 1..Len(name) : name[k] = "."}
    IN  IF dots = {} THEN 0 ELSE CHOOSE k \in dots : \A d \in dots : d <= k

\* name with only the part after its last dot, and that dot, removed
StripExtension(name) ==
    IF LastDot(name) = 0 THEN name ELSE SubSeq(name, 1, LastDot(name) - 1)

\* C23: every file downloadFile hands to the browser is named
\* <prefix><separator><base>.<ext>, base being the original name without its
\* file extension (the part after the last dot)
C23_ExportName ==
    \A a \in 1..Len(saved) :
       downloads[saved[a].run].fn \in {"downloadAll", "downloadFile"} =>
          \E ext \in {"jpg", "png", "pdf"} :
             saved[a].file.name =
                <<"CROP_">>
                  \o StripExtension(FileName(downloads[saved[a].run].items[saved[a].idx].id))
                  \o <<".", ext>>

\* the names with one dot are exported as the claim says
OneDotExportName ==
    \A a \in 1..Len(saved) :
       (/\ downloads[saved[a].run].fn \in {"downloadAll", "downloadFile"}
        /\ downloads[saved[a].run].items[saved[a].idx].id = 1) =>
          \E ext \in {"jpg", "png", "pdf"} :
             saved[a].file.name = <<"CROP_", "photo", ".", ext>>

(***************************************************************************)
(* C24.  The history pointer names an entry of the history.                 *)
(***************************************************************************)
\* C24: in every state of an editing session
\* 0 <= historyPointer <= history.length - 1
C24_PointerInHistory ==
    editingIdx # Null => (0 <= historyPointer /\ historyPointer <= Len(history) - 1)

\* the lower bound alone
PointerNotNegative == editingIdx # Null => 0 <= historyPointer

(***************************************************************************)
(* C25.  The saved snapshot and the output show the same selection.         *)
(***************************************************************************)
\* the rectangle of the natural image that the crop c selects on image id
SelectedRect(id, c, r) ==
    getProcessedCanvas(id, DisplaySize(id), ToPixelCrop(c, DisplaySize(id)), r).rect

\* C25: whenever handleSave commits an item, the rectangle the output bitmap
\* is rendered from is the selection of the crop stored in the item's
\* cropConfig
C25_SnapshotMatchesOutput ==
    (saveRun # <<>> /\ saveRun[1].fn = "handleSave"
                    /\ saveRun[1].editingIdx <= Len(images)) =>
        saveRun[1].canvas.rect =
            SelectedRect(images[saveRun[1].editingIdx].id, saveRun[1].crop,
                         saveRun[1].rotation)

(***************************************************************************)
(* C26.  The processing flag is always released.                            *)
(***************************************************************************)
\* C26: whenever isProcessing is true it is eventually false again
C26_ProcessingReleased == isProcessing ~> ~isProcessing

(***************************************************************************)
(* C27.  Adding images leaves an open session alone.                        *)
(***************************************************************************)
\* images are added while the editor stays open on the same item
AddedWhileEditing ==
    /\ editingIdx # Null
    /\ editingIdx' = editingIdx
    /\ Len(images') > Len(images)
    /\ SubSeq(images', 1, Len(images)) = images

\* C27: while the editor stays open on the same item, adding an image to the
\* gallery leaves the session's crop, aspect, rotation, history and
\* historyPointer unchanged
C27_AddKeepsSession ==
    [][AddedWhileEditing => UNCHANGED <<crop, aspect, rotation, history, historyPointer>>]_vars

\* what adding does leave unchanged: the items already in the gallery and the
\* completed crop
AddKeepsItems == [][AddedWhileEditing => UNCHANGED completedCrop]_vars

(***************************************************************************)
(* C28.  A batch does not lose a gallery update.                            *)
(***************************************************************************)
\* the batch call in flight writes its results in this step
BatchWrites == batch.status = "running" /\ batch'.status = "idle"

\* C28: every image that is in the gallery when handleApplyAll or
\* handleApplyBatch writes its results, the images added while the call was
\* in flight included, is in the gallery afterwards
C28_NoLostUpdate ==
    [][(BatchWrites /\ batch.fn \in {"handleApplyAll", "handleApplyBatch"}) =>
          \A k \in 1..Len(images) :
             \E m \in 1..Len(images') : images'[m].id = images[k].id]_vars

\* the images the call started with are kept
BatchKeepsItsImages ==
    [][BatchWrites =>
          \A k \in 1..Len(batch.images) :
             \E m \in 1..Len(images') : images'[m].id = batch.images[k].id]_vars

(***************************************************************************)
(* C29.  Save and batch runs exclude each other.                            *)
(***************************************************************************)
\* a run of handleSave starts in this step
SaveStarts == saveRun = <<>> /\ saveRun' # <<>> /\ saveRun'[1].fn = "handleSave"

\* a run of handleApplyAll or handleApplyBatch starts in this step
BatchStarts == batch'.calls > batch.calls

\* C29: while isProcessing is true no save and no batch apply starts
C29_RunsExclusive == [][isProcessing => ~(SaveStarts \/ BatchStarts)]_vars

\* the save button alone: no handleSave starts while isProcessing is true
SaveButtonGated == [][isProcessing => ~SaveStarts]_vars

(***************************************************************************)
(* C30.  The extension of a downloaded file names the bytes in it.          *)
(***************************************************************************)
\* the encoding a file extension stands for
KindOfExtension(ext) ==
    CASE ext = "jpg" -> "image/jpeg"
      [] ext = "png" -> "image/png"
      [] ext = "pdf" -> "application/pdf"
      [] OTHER       -> "unknown"

\* the files downloadFile has handed to the browser
DownloadFileSaves ==
    {a \in 1..Len(saved) : downloads[saved[a].run].fn \in {"downloadAll", "downloadFile"}}

\* C30: for every item and every target kind, the extension downloadFile gives
\* the file is that of the encoding of the bytes it delivers
C30_KindMatchesBytes ==
    \A a \in DownloadFileSaves :
       KindOfExtension(saved[a].file.name[Len(saved[a].file.name)]) = saved[a].file.bytes

\* the kinds for which it holds: JPEG and PDF
JpegAndPdfMatch ==
    \A a \in DownloadFileSaves :
       downloads[saved[a].run].format # "image/png" =>
          KindOfExtension(saved[a].file.name[Len(saved[a].file.name)]) = saved[a].file.bytes

====
